---- MODULE Spec2Model ----
(***************************************************************************)
(* A model of the tana/db statement builders (src/lib/db/query.ts), the    *)
(* schema values they read (src/lib/db/schema.ts) and the record layer     *)
(* built on them (src/lib/db/model.ts).                                    *)
(*                                                                         *)
(* Representation.                                                         *)
(*  - A JavaScript value that ends up in a parameter list is written as    *)
(*    the text of its literal: "true", "Hello", "undefined".               *)
(*  - A JavaScript object with insertion-ordered keys (a row, a SET        *)
(*    mapping, a column map) is a sequence of [k, v] entries.              *)
(*  - SQL text is kept as the sequence of the fragments the code           *)
(*    concatenates; SqlText glues them into the string the code returns.   *)
(*    A placeholder is always a fragment of its own ("$3").                *)
(*  - An optional field is Undefined or Some(v).                           *)
(***************************************************************************)
EXTENDS Naturals, Sequences, FiniteSets, TLC

----------------------------------------------------------------------------
(* Generic helpers *)

Undefined == [some |-> FALSE]
Some(v) == [some |-> TRUE, val |-> v]

Range(s) == {s[i] : i \in 1..Len(s)}

RECURSIVE Concat(_)
\* The concatenation of a sequence of strings.
Concat(parts) ==
  IF parts = <<>> THEN "" ELSE Head(parts) \o Concat(Tail(parts))

RECURSIVE JoinParts(_, _)
\* Array.prototype.join on a sequence of fragment sequences: the fragments
\* of each element, with the separator as one fragment between elements.
JoinParts(parts, sep) ==
  IF parts = <<>> THEN <<>>
  ELSE IF Len(parts) = 1 THEN parts[1]
  ELSE parts[1] \o <<sep>> \o JoinParts(Tail(parts), sep)

RECURSIVE Flatten(_)
Flatten(seqs) ==
  IF seqs = <<>> THEN <<>> ELSE Head(seqs) \o Flatten(Tail(seqs))

\* The string the code returns for a fragment sequence.
SqlText(frags) == Concat(frags)

\* `"${name}"`: a double-quoted identifier.
Quoted(name) == "\"" \o name \o "\""

\* `$${n}`: a positional placeholder.
Placeholder(n) == "$" \o ToString(n)

----------------------------------------------------------------------------
(* Insertion-ordered objects *)

Entry(k, v) == [k |-> k, v |-> v]

Keys(obj) == [i \in 1..Len(obj) |-> obj[i].k]

HasKey(obj, key) == \E i \in 1..Len(obj) : obj[i].k = key

\* obj[key] for a key the object has.
Lookup(obj, key) == obj[CHOOSE i \in 1..Len(obj) : obj[i].k = key].v

\* obj[key] of an object of parameter values: undefined when absent.
ValueAt(obj, key) == IF HasKey(obj, key) THEN Lookup(obj, key) ELSE "undefined"

----------------------------------------------------------------------------
(* schema.ts: column definitions and tables *)

NoReference == "none"
NoDefault == "undefined"

ColumnBuilder(columnType, columnName, references, defaultValue,
              notNullFlag, hasDefaultFlag, isPrimaryKeyFlag) ==
  [columnType |-> columnType, columnName |-> columnName,
   _references |-> references, _defaultValue |-> defaultValue,
   _notNullFlag |-> notNullFlag, _hasDefaultFlag |-> hasDefaultFlag,
   _isPrimaryKeyFlag |-> isPrimaryKeyFlag]

text(name) == ColumnBuilder("text", name, NoReference, NoDefault, FALSE, FALSE, FALSE)
integer(name) == ColumnBuilder("integer", name, NoReference, NoDefault, FALSE, FALSE, FALSE)
boolean(name) == ColumnBuilder("boolean", name, NoReference, NoDefault, FALSE, FALSE, FALSE)
uuid(name) == ColumnBuilder("uuid", name, NoReference, NoDefault, FALSE, FALSE, FALSE)

notNull(c) ==
  ColumnBuilder(c.columnType, c.columnName, c._references, c._defaultValue,
                TRUE, c._hasDefaultFlag, c._isPrimaryKeyFlag)

default(c, value) ==
  ColumnBuilder(c.columnType, c.columnName, c._references, value,
                c._notNullFlag, TRUE, c._isPrimaryKeyFlag)

defaultNow(c) ==
  ColumnBuilder(c.columnType, c.columnName, c._references, "{__defaultNow: true}",
                c._notNullFlag, TRUE, c._isPrimaryKeyFlag)

defaultRandom(c) ==
  ColumnBuilder(c.columnType, c.columnName, c._references, "{__defaultRandom: true}",
                c._notNullFlag, TRUE, c._isPrimaryKeyFlag)

primaryKey(c) ==
  ColumnBuilder(c.columnType, c.columnName, c._references, c._defaultValue,
                TRUE, c._hasDefaultFlag, TRUE)

\* references(ref): ref is written as the name of the column it returns.
references(c, ref) ==
  ColumnBuilder(c.columnType, c.columnName, ref, c._defaultValue,
                c._notNullFlag, c._hasDefaultFlag, c._isPrimaryKeyFlag)

_getMeta(c) ==
  [type |-> c.columnType, name |-> c.columnName, notNull |-> c._notNullFlag,
   hasDefault |-> c._hasDefaultFlag, isPrimaryKey |-> c._isPrimaryKeyFlag,
   defaultValue |-> c._defaultValue, references |-> c._references]

\* new Table(name, columns): columns maps logical names to definitions.
Table(tableName, columns) == [tableName |-> tableName, columns |-> columns]

\* The tables the model's programs declare.  posts is the table of the
\* documentation's examples plus a column whose physical name differs from
\* its logical key; events has no primary key; tags has no other column
\* than its primary key.
posts ==
  Table("posts",
        << Entry("id", primaryKey(uuid("id"))),
           Entry("title", notNull(text("title"))),
           Entry("published", default(boolean("published"), "false")),
           Entry("readTime", integer("read_time")) >>)

users ==
  Table("users",
        << Entry("id", primaryKey(uuid("id"))),
           Entry("name", text("name")) >>)

events ==
  Table("events",
        << Entry("kind", text("kind")),
           Entry("payload", text("payload")) >>)

tags == Table("tags", << Entry("id", primaryKey(uuid("id"))) >>)

\* A table with a column whose logical name is also the name of a method of
\* model instances.
drafts ==
  Table("drafts",
        << Entry("id", primaryKey(uuid("id"))),
           Entry("title", text("title")),
           Entry("save", boolean("auto_save")) >>)

\* table.columns[key], for a key the table declares.
Col(t, key) == Lookup(t.columns, key)

----------------------------------------------------------------------------
(* query.ts: condition expressions *)

NoColumn == ColumnBuilder("", "", NoReference, NoDefault, FALSE, FALSE, FALSE)

ComparisonExpr(column, op, value) ==
  [node |-> "comparison", column |-> column, op |-> op,
   values |-> <<value>>, conditions |-> <<>>]
InExpr(column, values) ==
  [node |-> "in", column |-> column, op |-> "IN",
   values |-> values, conditions |-> <<>>]
NotInExpr(column, values) ==
  [node |-> "notIn", column |-> column, op |-> "NOT IN",
   values |-> values, conditions |-> <<>>]
IsNullExpr(column) ==
  [node |-> "isNull", column |-> column, op |-> "IS NULL",
   values |-> <<>>, conditions |-> <<>>]
IsNotNullExpr(column) ==
  [node |-> "isNotNull", column |-> column, op |-> "IS NOT NULL",
   values |-> <<>>, conditions |-> <<>>]
BetweenExpr(column, min, max) ==
  [node |-> "between", column |-> column, op |-> "BETWEEN",
   values |-> <<min, max>>, conditions |-> <<>>]
AndExpr(conditions) ==
  [node |-> "and", column |-> NoColumn, op |-> "AND",
   values |-> <<>>, conditions |-> conditions]
OrExpr(conditions) ==
  [node |-> "or", column |-> NoColumn, op |-> "OR",
   values |-> <<>>, conditions |-> conditions]
NotExpr(condition) ==
  [node |-> "not", column |-> NoColumn, op |-> "NOT",
   values |-> <<>>, conditions |-> <<condition>>]

eq(column, value) == ComparisonExpr(column, "=", value)
ne(column, value) == ComparisonExpr(column, "<>", value)
gt(column, value) == ComparisonExpr(column, ">", value)
gte(column, value) == ComparisonExpr(column, ">=", value)
lt(column, value) == ComparisonExpr(column, "<", value)
lte(column, value) == ComparisonExpr(column, "<=", value)
like(column, pattern) == ComparisonExpr(column, "LIKE", pattern)
ilike(column, pattern) == ComparisonExpr(column, "ILIKE", pattern)
inArray(column, values) == InExpr(column, values)
notInArray(column, values) == NotInExpr(column, values)
isNull(column) == IsNullExpr(column)
isNotNull(column) == IsNotNullExpr(column)
between(column, min, max) == BetweenExpr(column, min, max)
and(conditions) == AndExpr(conditions)
or(conditions) == OrExpr(conditions)
not(condition) == NotExpr(condition)

SqlResult(sql, params, nextIndex) ==
  [sql |-> sql, params |-> params, nextIndex |-> nextIndex]

ComparisonToSQL(c, paramIndex) ==
  SqlResult(<<Quoted(c.column.columnName), " " \o c.op \o " ",
              Placeholder(paramIndex)>>,
            <<c.values[1]>>,
            paramIndex + 1)

\* values.map((_, i) => `$${paramIndex + i}`).join(', ')
InPlaceholders(values, paramIndex) ==
  JoinParts([i \in 1..Len(values) |-> <<Placeholder(paramIndex + (i - 1))>>],
            ", ")

InToSQL(c, paramIndex) ==
  SqlResult(<<Quoted(c.column.columnName), " IN ("  >>
              \o InPlaceholders(c.values, paramIndex) \o <<")">>,
            c.values,
            paramIndex + Len(c.values))

NotInToSQL(c, paramIndex) ==
  SqlResult(<<Quoted(c.column.columnName), " NOT IN (">>
              \o InPlaceholders(c.values, paramIndex) \o <<")">>,
            c.values,
            paramIndex + Len(c.values))

IsNullToSQL(c, paramIndex) ==
  SqlResult(<<Quoted(c.column.columnName), " IS NULL">>, <<>>, paramIndex)

IsNotNullToSQL(c, paramIndex) ==
  SqlResult(<<Quoted(c.column.columnName), " IS NOT NULL">>, <<>>, paramIndex)

\* BetweenExpr.toSQL advancing the index by one for its two values.
BetweenToSQL_OneSlot(c, paramIndex) ==
  SqlResult(<<Quoted(c.column.columnName), " BETWEEN ",
              Placeholder(paramIndex), " AND ", Placeholder(paramIndex + 1)>>,
            <<c.values[1], c.values[2]>>,
            paramIndex + 1)

BetweenToSQL(c, paramIndex) ==
  SqlResult(<<Quoted(c.column.columnName), " BETWEEN ",
              Placeholder(paramIndex), " AND ", Placeholder(paramIndex + 1)>>,
            <<c.values[1], c.values[2]>>,
            paramIndex + 2)

RECURSIVE CondToSQL(_, _)
RECURSIVE FoldConditions(_, _, _)

\* The loop of AndExpr.toSQL and OrExpr.toSQL: the conditions from position
\* i on, compiled in order, each starting at the index the one before left.
FoldConditions(conditions, i, idx) ==
  IF i > Len(conditions)
  THEN [parts |-> <<>>, params |-> <<>>, idx |-> idx]
  ELSE LET result == CondToSQL(conditions[i], idx)
           rest == FoldConditions(conditions, i + 1, result.nextIndex)
       IN [parts |-> <<result.sql>> \o rest.parts,
           params |-> result.params \o rest.params,
           idx |-> rest.idx]

\* An AND that takes a parameter index for itself.
AndToSQL_TakesIndex(c, paramIndex) ==
  LET f == FoldConditions(c.conditions, 1, paramIndex)
  IN SqlResult(<<"(">> \o JoinParts(f.parts, " AND ") \o <<")">>,
               f.params, f.idx + 1)

AndToSQL(c, paramIndex) ==
  LET f == FoldConditions(c.conditions, 1, paramIndex)
  IN SqlResult(<<"(">> \o JoinParts(f.parts, " AND ") \o <<")">>,
               f.params, f.idx)

OrToSQL(c, paramIndex) ==
  LET f == FoldConditions(c.conditions, 1, paramIndex)
  IN SqlResult(<<"(">> \o JoinParts(f.parts, " OR ") \o <<")">>,
               f.params, f.idx)

NotToSQL(c, paramIndex) ==
  LET result == CondToSQL(c.conditions[1], paramIndex)
  IN SqlResult(<<"NOT ">> \o result.sql, result.params, result.nextIndex)

\* SQLCondition.toSQL(paramIndex), dispatched on the class of the node.
CondToSQL(c, paramIndex) ==
  CASE c.node = "comparison" -> ComparisonToSQL(c, paramIndex)
    [] c.node = "in" -> InToSQL(c, paramIndex)
    [] c.node = "notIn" -> NotInToSQL(c, paramIndex)
    [] c.node = "isNull" -> IsNullToSQL(c, paramIndex)
    [] c.node = "isNotNull" -> IsNotNullToSQL(c, paramIndex)
    [] c.node = "between" -> BetweenToSQL(c, paramIndex)
    [] c.node = "and" -> AndToSQL(c, paramIndex)
    [] c.node = "or" -> OrToSQL(c, paramIndex)
    [] c.node = "not" -> NotToSQL(c, paramIndex)

----------------------------------------------------------------------------
(* The object heap.  A builder object and each array it holds is an object  *)
(* with an identity: heap maps the references in use to objects, and a      *)
(* field that holds an array holds its reference, so that two builders      *)
(* whose fields were assigned the same array share it.                      *)

NullRef == 0

\* The reference `new` yields next.
FreshRef(h) == CHOOSE r \in 1..(Cardinality(DOMAIN h) + 1) : r \notin DOMAIN h

Allocate(h, obj) == h @@ (FreshRef(h) :> obj)

ArrayObject(items) == [class |-> "Array", items |-> items]

Items(h, ref) == h[ref].items

\* What a call leaves: the heap, and the reference it returns or the error
\* it throws.
Returned(h, ref) == [heap |-> h, ret |-> ref, error |-> ""]
Thrown(h, error) == [heap |-> h, ret |-> NullRef, error |-> error]

\* The references an object's fields hold, in the order of the fields.
FieldRefs(obj) ==
  CASE obj.class = "SelectQueryBuilder" -> <<obj._joins, obj._orderBy, obj._groupBy>>
    [] obj.class = "InsertQueryBuilder" -> <<obj._values>>
    [] obj.class = "QueryChain" -> <<obj._conditions, obj._orderByList>>
    [] obj.class = "Table" -> [i \in 1..Len(obj.columns) |-> obj.columns[i].v]
    [] OTHER -> <<>>

\* The object with every reference it holds replaced by its new name.
Renamed(obj, name) ==
  CASE obj.class = "SelectQueryBuilder" ->
         [obj EXCEPT !._joins = name[@], !._orderBy = name[@], !._groupBy = name[@]]
    [] obj.class = "InsertQueryBuilder" -> [obj EXCEPT !._values = name[@]]
    [] obj.class = "QueryChain" ->
         [obj EXCEPT !._conditions = name[@], !._orderByList = name[@]]
    [] obj.class = "Table" ->
         [obj EXCEPT !.columns = [i \in 1..Len(@) |-> Entry(@[i].k, name[@[i].v])]]
    [] OTHER -> obj

RECURSIVE Distinct(_)
\* A sequence without the later occurrences of its elements.
Distinct(s) ==
  IF s = <<>> THEN <<>>
  ELSE LET front == Distinct(SubSeq(s, 1, Len(s) - 1))
       IN IF s[Len(s)] \in Range(front) THEN front ELSE Append(front, s[Len(s)])

\* The objects the variables reach, in the order the variables reach them.
ReachOrder(h, vs) ==
  Distinct(Flatten([k \in 1..Len(vs) |->
                      IF vs[k] = NullRef THEN <<>>
                      ELSE FieldRefs(h[vs[k]]) \o <<vs[k]>>]))

\* Garbage collection.  The objects no variable reaches are dropped and the
\* rest are named 1, 2, ... in the order the variables reach them: a
\* reference's number is not observable, only which fields hold the same one.
Collect(h, vs) ==
  LET order == ReachOrder(h, vs)
      name == [r \in Range(order) |-> CHOOSE n \in 1..Len(order) : order[n] = r]
  IN [heap |-> [n \in 1..Len(order) |-> Renamed(h[order[n]], name)],
      slots |-> [k \in 1..Len(vs) |-> IF vs[k] = NullRef THEN NullRef ELSE name[vs[k]]]]

----------------------------------------------------------------------------
(* query.ts: ordering and aggregate helpers *)

\* An argument of orderBy: what asc()/desc() return, a bare column, or (what
\* the type checker rejects and the runtime does not) a string.
OrderObject(column, direction) ==
  [type |-> "order", column |-> column, direction |-> direction]
ColumnArg(column) == [type |-> "column", column |-> column, direction |-> ""]
StringArg(str) == [type |-> "string", column |-> NoColumn, direction |-> str]

asc(column) == OrderObject(column, "asc")
desc(column) == OrderObject(column, "desc")

\* An entry of a select() column map: an aggregate descriptor, a column, or
\* any other value.
Aggregate(fn, column) == [type |-> "aggregate", fn |-> fn, column |-> column]
SelectedColumn(column) == [type |-> "column", fn |-> "", column |-> Some(column)]
OtherValue == [type |-> "other", fn |-> "", column |-> Undefined]

count(column) == Aggregate("count", column)
sum(column) == Aggregate("sum", Some(column))
avg(column) == Aggregate("avg", Some(column))
min(column) == Aggregate("min", Some(column))
max(column) == Aggregate("max", Some(column))

\* A keyword left in the case it was given in.
toUpperCase_Same(str) == str

\* String.prototype.toUpperCase on the keywords the builders upper-case.
toUpperCase(str) ==
  CASE str = "asc" -> "ASC" [] str = "desc" -> "DESC"
    [] str = "inner" -> "INNER" [] str = "left" -> "LEFT"
    [] str = "right" -> "RIGHT" [] str = "full" -> "FULL"
    [] str = "count" -> "COUNT" [] str = "sum" -> "SUM"
    [] str = "avg" -> "AVG" [] str = "min" -> "MIN" [] str = "max" -> "MAX"
    [] OTHER -> str

JoinClause(type, table, on) == [type |-> type, table |-> table, on |-> on]

\* The '*' of SelectQueryBuilder._select, and a column map.
Star == [star |-> TRUE, entries |-> <<>>]
ColumnMap(entries) == [star |-> FALSE, entries |-> entries]

----------------------------------------------------------------------------
(* query.ts: SelectQueryBuilder *)

\* new SelectQueryBuilder(): the field initialisers, each array a new one.
NewSelectQueryBuilder(h) ==
  LET h1 == Allocate(h, ArrayObject(<<>>))
      joins == FreshRef(h)
      h2 == Allocate(h1, ArrayObject(<<>>))
      orderBy == FreshRef(h1)
      h3 == Allocate(h2, ArrayObject(<<>>))
      groupBy == FreshRef(h2)
  IN Returned(Allocate(h3, [class |-> "SelectQueryBuilder",
                            _from |-> Undefined, _select |-> Star,
                            _where |-> Undefined, _joins |-> joins,
                            _orderBy |-> orderBy, _groupBy |-> groupBy,
                            _limit |-> Undefined, _offset |-> Undefined]),
              FreshRef(h3))

\* The body every chain method of SelectQueryBuilder shares: a new builder
\* whose fields are assigned from the given field values.
SelectCopy(h, fields) ==
  LET n == NewSelectQueryBuilder(h)
  IN Returned([n.heap EXCEPT ![n.ret] = fields], n.ret)

Select_select(h, this, columns) ==
  SelectCopy(h, [h[this] EXCEPT
                   !._select = IF columns.some THEN columns.val ELSE Star])

Select_from(h, this, table) ==
  SelectCopy(h, [h[this] EXCEPT !._from = Some(table)])

\* A where that adds its condition to the one the receiver has.
Select_where_Conjoined(h, this, condition) ==
  SelectCopy(h, [h[this] EXCEPT !._where =
                   IF @.some THEN Some(and(<<@.val, condition>>))
                   ELSE Some(condition)])

Select_where(h, this, condition) ==
  SelectCopy(h, [h[this] EXCEPT !._where = Some(condition)])

\* A join method that pushes the clause onto the receiver's own array and
\* hands that array to the new builder.
Select_join_InPlace(h, this, type, table, on) ==
  SelectCopy([h EXCEPT ![h[this]._joins].items =
                Append(@, JoinClause(type, table, on))],
             h[this])

\* [...this._joins, { type, table, on }]: a new array.
Select_join(h, this, type, table, on) ==
  LET h1 == Allocate(h, ArrayObject(Append(Items(h, h[this]._joins),
                                           JoinClause(type, table, on))))
  IN SelectCopy(h1, [h[this] EXCEPT !._joins = FreshRef(h)])

Select_innerJoin(h, this, table, on) == Select_join(h, this, "inner", table, on)
Select_leftJoin(h, this, table, on) == Select_join(h, this, "left", table, on)
Select_rightJoin(h, this, table, on) == Select_join(h, this, "right", table, on)

\* orders.map((o) => 'direction' in o ? o : { column: o, direction: 'asc' }).
\* The in operator throws a TypeError on a primitive.
Select_orderBy(h, this, orders) ==
  IF \E i \in 1..Len(orders) : orders[i].type = "string"
  THEN Thrown(h, "TypeError")
  ELSE LET mapped == [i \in 1..Len(orders) |->
                        IF orders[i].type = "order"
                        THEN [column |-> orders[i].column,
                              direction |-> orders[i].direction]
                        ELSE [column |-> orders[i].column, direction |-> "asc"]]
           h1 == Allocate(h, ArrayObject(mapped))
       IN SelectCopy(h1, [h[this] EXCEPT !._orderBy = FreshRef(h)])

\* columns is the rest-parameter array of the call: a new array.
Select_groupBy(h, this, columns) ==
  LET h1 == Allocate(h, ArrayObject(columns))
  IN SelectCopy(h1, [h[this] EXCEPT !._groupBy = FreshRef(h)])

Select_limit(h, this, n) ==
  SelectCopy(h, [h[this] EXCEPT !._limit = Some(n)])

Select_offset(h, this, n) ==
  SelectCopy(h, [h[this] EXCEPT !._offset = Some(n)])

\* What toSQL() leaves: { sql, params }, or the error it throws.
Compiled(sql, params) == [error |-> "", sql |-> sql, params |-> params]
CompileError(error) == [error |-> error, sql |-> <<>>, params |-> <<>>]

\* One entry of the SELECT column list.
SelectEntrySQL(alias, col) ==
  IF col.type = "aggregate"
  THEN IF col.column.some
       THEN <<toUpperCase(col.fn), "(", Quoted(col.column.val.columnName), ")",
              " AS ", Quoted(alias)>>
       ELSE <<toUpperCase(col.fn), "(*)", " AS ", Quoted(alias)>>
  ELSE IF col.type = "column"
       THEN <<Quoted(col.column.val.columnName), " AS ", Quoted(alias)>>
       ELSE <<Quoted(alias)>>

SelectClause(b) ==
  IF b._select.star
  THEN <<"SELECT * FROM ", Quoted(b._from.val.tableName)>>
  ELSE <<"SELECT ">>
       \o JoinParts([i \in 1..Len(b._select.entries) |->
                       SelectEntrySQL(b._select.entries[i].k,
                                      b._select.entries[i].v)], ", ")
       \o <<" FROM ", Quoted(b._from.val.tableName)>>

RECURSIVE JoinClauses(_, _, _)
\* The loop over this._joins: each ON condition compiled from the index the
\* one before left.
JoinClauses(joins, i, paramIndex) ==
  IF i > Len(joins)
  THEN [parts |-> <<>>, params |-> <<>>, paramIndex |-> paramIndex]
  ELSE LET onResult == CondToSQL(joins[i].on, paramIndex)
           rest == JoinClauses(joins, i + 1, onResult.nextIndex)
       IN [parts |-> << <<toUpperCase(joins[i].type), " JOIN ",
                          Quoted(joins[i].table.tableName), " ON ">>
                        \o onResult.sql >> \o rest.parts,
           params |-> onResult.params \o rest.params,
           paramIndex |-> rest.paramIndex]

\* The WHERE clause numbered from 1 again, whatever the joins consumed.
WhereClause_FromOne(where, paramIndex) ==
  IF where.some
  THEN LET whereResult == CondToSQL(where.val, 1)
       IN [parts |-> << <<"WHERE ">> \o whereResult.sql >>,
           params |-> whereResult.params]
  ELSE [parts |-> <<>>, params |-> <<>>]

WhereClause(where, paramIndex) ==
  IF where.some
  THEN LET whereResult == CondToSQL(where.val, paramIndex)
       IN [parts |-> << <<"WHERE ">> \o whereResult.sql >>,
           params |-> whereResult.params]
  ELSE [parts |-> <<>>, params |-> <<>>]

GroupByClause(groupBy) ==
  IF Len(groupBy) > 0
  THEN << <<"GROUP BY ">>
          \o JoinParts([i \in 1..Len(groupBy) |->
                          <<Quoted(groupBy[i].columnName)>>], ", ") >>
  ELSE <<>>

OrderByClause(orderBy) ==
  IF Len(orderBy) > 0
  THEN << <<"ORDER BY ">>
          \o JoinParts([i \in 1..Len(orderBy) |->
                          <<Quoted(orderBy[i].column.columnName), " ",
                            toUpperCase(orderBy[i].direction)>>], ", ") >>
  ELSE <<>>

LimitClause(limit) ==
  IF limit.some THEN << <<"LIMIT ", ToString(limit.val)>> >> ELSE <<>>

OffsetClause(offset) ==
  IF offset.some THEN << <<"OFFSET ", ToString(offset.val)>> >> ELSE <<>>

\* A toSQL() that puts the clauses in another order: WHERE before the joins,
\* ORDER BY before GROUP BY.
SelectToSQL_OtherOrder(h, this) ==
  LET b == h[this] IN
  IF ~b._from.some
  THEN CompileError("FROM clause is required")
  ELSE LET where == WhereClause(b._where, 1)
           joins == JoinClauses(Items(h, b._joins), 1, 1 + Len(where.params))
           parts == <<SelectClause(b)>> \o where.parts \o joins.parts
                    \o OrderByClause(Items(h, b._orderBy))
                    \o GroupByClause(Items(h, b._groupBy))
                    \o LimitClause(b._limit) \o OffsetClause(b._offset)
       IN Compiled(JoinParts(parts, " "), where.params \o joins.params)

\* SelectQueryBuilder.toSQL()
SelectToSQL(h, this) ==
  LET b == h[this] IN
  IF ~b._from.some
  THEN CompileError("FROM clause is required")
  ELSE LET joins == JoinClauses(Items(h, b._joins), 1, 1)
           where == WhereClause(b._where, joins.paramIndex)
           parts == <<SelectClause(b)>> \o joins.parts \o where.parts
                    \o GroupByClause(Items(h, b._groupBy))
                    \o OrderByClause(Items(h, b._orderBy))
                    \o LimitClause(b._limit) \o OffsetClause(b._offset)
       IN Compiled(JoinParts(parts, " "), joins.params \o where.params)

----------------------------------------------------------------------------
(* query.ts: InsertQueryBuilder *)

\* The argument of values(): one row, or an array of rows.
OneRow(row) == [isArray |-> FALSE, rows |-> <<row>>]
RowArray(rows) == [isArray |-> TRUE, rows |-> rows]

\* new InsertQueryBuilder(table)
NewInsertQueryBuilder(h, table) ==
  LET h1 == Allocate(h, ArrayObject(<<>>))
  IN Returned(Allocate(h1, [class |-> "InsertQueryBuilder", _table |-> table,
                            _values |-> FreshRef(h), _returning |-> FALSE]),
              FreshRef(h1))

\* Array.isArray(data) ? data : [data]: the caller's array, or a new one.
\* Either way an array no other builder holds yet.
Insert_values(h, this, data) ==
  LET h1 == Allocate(h, ArrayObject(data.rows))
      n == NewInsertQueryBuilder(h1, h[this]._table)
  IN Returned([n.heap EXCEPT ![n.ret]._values = FreshRef(h),
                               ![n.ret]._returning = h[this]._returning],
              n.ret)

Insert_returning(h, this) ==
  LET n == NewInsertQueryBuilder(h, h[this]._table)
  IN Returned([n.heap EXCEPT ![n.ret]._values = h[this]._values,
                               ![n.ret]._returning = TRUE],
              n.ret)

\* The property name used as the column name, whatever the schema says.
DbColumnName_Verbatim(table, prop) == prop

\* tableColumns[prop]?.columnName || prop
DbColumnName(table, prop) ==
  IF HasKey(table.columns, prop) /\ Col(table, prop).columnName # ""
  THEN Col(table, prop).columnName
  ELSE prop

RECURSIVE ValueLists_RestartPerRow(_, _, _, _)
\* Placeholder groups that each start again at the index of the first.
ValueLists_RestartPerRow(rows, propNames, i, paramIndex) ==
  IF i > Len(rows)
  THEN [lists |-> <<>>, params |-> <<>>]
  ELSE LET placeholders == [j \in 1..Len(propNames) |->
                              <<Placeholder(paramIndex + (j - 1))>>]
           values == [j \in 1..Len(propNames) |-> ValueAt(rows[i], propNames[j])]
           rest == ValueLists_RestartPerRow(rows, propNames, i + 1, paramIndex)
       IN [lists |-> << <<"(">> \o JoinParts(placeholders, ", ") \o <<")">> >>
                     \o rest.lists,
           params |-> values \o rest.params]

RECURSIVE ValueLists(_, _, _, _)
\* this._values.map(row => propNames.map(prop => ...)): one group per row,
\* paramIndex running on across the rows.
ValueLists(rows, propNames, i, paramIndex) ==
  IF i > Len(rows)
  THEN [lists |-> <<>>, params |-> <<>>]
  ELSE LET placeholders == [j \in 1..Len(propNames) |->
                              <<Placeholder(paramIndex + (j - 1))>>]
           values == [j \in 1..Len(propNames) |-> ValueAt(rows[i], propNames[j])]
           rest == ValueLists(rows, propNames, i + 1, paramIndex + Len(propNames))
       IN [lists |-> << <<"(">> \o JoinParts(placeholders, ", ") \o <<")">> >>
                     \o rest.lists,
           params |-> values \o rest.params]

\* InsertQueryBuilder.toSQL()
InsertToSQL(h, this) ==
  LET b == h[this]
      rows == Items(h, b._values)
  IN
  IF Len(rows) = 0
  THEN CompileError("No values to insert")
  ELSE LET propNames == Keys(rows[1])
           columnList == JoinParts([j \in 1..Len(propNames) |->
                                      <<Quoted(DbColumnName(b._table, propNames[j]))>>],
                                   ", ")
           v == ValueLists(rows, propNames, 1, 1)
       IN Compiled(<<"INSERT INTO ", Quoted(b._table.tableName), " (">>
                     \o columnList \o <<") VALUES ">>
                     \o JoinParts(v.lists, ", ")
                     \o (IF b._returning THEN <<" RETURNING *">> ELSE <<>>),
                   v.params)

----------------------------------------------------------------------------
(* query.ts: UpdateQueryBuilder *)

\* new UpdateQueryBuilder(table)
NewUpdateQueryBuilder(h, table) ==
  Returned(Allocate(h, [class |-> "UpdateQueryBuilder", _table |-> table,
                        _set |-> <<>>, _where |-> Undefined,
                        _returning |-> FALSE]),
           FreshRef(h))

UpdateCopy(h, fields) ==
  LET n == NewUpdateQueryBuilder(h, fields._table)
  IN Returned([n.heap EXCEPT ![n.ret] = fields], n.ret)

Update_set(h, this, data) == UpdateCopy(h, [h[this] EXCEPT !._set = data])

Update_where(h, this, condition) ==
  UpdateCopy(h, [h[this] EXCEPT !._where = Some(condition)])

Update_returning(h, this) == UpdateCopy(h, [h[this] EXCEPT !._returning = TRUE])

\* UpdateQueryBuilder.toSQL()
UpdateToSQL(h, this) ==
  LET b == h[this]
      propNames == Keys(b._set)
  IN
  IF Len(propNames) = 0
  THEN CompileError("No columns to update")
  ELSE LET setClause ==
             JoinParts([j \in 1..Len(propNames) |->
                          <<Quoted(DbColumnName(b._table, propNames[j])), " = ",
                            Placeholder(j)>>], ", ")
           setParams == [j \in 1..Len(propNames) |-> ValueAt(b._set, propNames[j])]
           paramIndex == 1 + Len(propNames)
           whereResult == CondToSQL(b._where.val, paramIndex)
       IN Compiled(<<"UPDATE ", Quoted(b._table.tableName), " SET ">>
                     \o setClause
                     \o (IF b._where.some
                         THEN <<" WHERE ">> \o whereResult.sql ELSE <<>>)
                     \o (IF b._returning THEN <<" RETURNING *">> ELSE <<>>),
                   setParams
                     \o (IF b._where.some THEN whereResult.params ELSE <<>>))

----------------------------------------------------------------------------
(* query.ts: DeleteQueryBuilder *)

\* new DeleteQueryBuilder(table)
NewDeleteQueryBuilder(h, table) ==
  Returned(Allocate(h, [class |-> "DeleteQueryBuilder", _table |-> table,
                        _where |-> Undefined, _returning |-> FALSE]),
           FreshRef(h))

DeleteCopy(h, fields) ==
  LET n == NewDeleteQueryBuilder(h, fields._table)
  IN Returned([n.heap EXCEPT ![n.ret] = fields], n.ret)

Delete_where(h, this, condition) ==
  DeleteCopy(h, [h[this] EXCEPT !._where = Some(condition)])

Delete_returning(h, this) == DeleteCopy(h, [h[this] EXCEPT !._returning = TRUE])

\* DeleteQueryBuilder.toSQL()
DeleteToSQL(h, this) ==
  LET b == h[this]
      whereResult == CondToSQL(b._where.val, 1)
  IN Compiled(<<"DELETE FROM ", Quoted(b._table.tableName)>>
                \o (IF b._where.some
                    THEN <<" WHERE ">> \o whereResult.sql ELSE <<>>)
                \o (IF b._returning THEN <<" RETURNING *">> ELSE <<>>),
              IF b._where.some THEN whereResult.params ELSE <<>>)

----------------------------------------------------------------------------
(* query.ts: the db entry points *)

db_select(h, columns) ==
  LET n == NewSelectQueryBuilder(h) IN Select_select(n.heap, n.ret, columns)
db_insert(h, table) == NewInsertQueryBuilder(h, table)
db_update(h, table) == NewUpdateQueryBuilder(h, table)
db_delete(h, table) == NewDeleteQueryBuilder(h, table)

----------------------------------------------------------------------------
(* model.ts: QueryChain *)

\* new QueryChain(table)
NewQueryChain(h, table) ==
  LET h1 == Allocate(h, ArrayObject(<<>>))
      h2 == Allocate(h1, ArrayObject(<<>>))
  IN Returned(Allocate(h2, [class |-> "QueryChain", _table |-> table,
                            _conditions |-> FreshRef(h),
                            _orderByList |-> FreshRef(h1),
                            _limitValue |-> Undefined,
                            _offsetValue |-> Undefined]),
              FreshRef(h2))

\* A new chain that holds the receiver's own two arrays, not copies.
ChainCopy_Shared(h, this) ==
  LET n == NewQueryChain(h, h[this]._table)
  IN Returned([n.heap EXCEPT ![n.ret]._conditions = h[this]._conditions,
                               ![n.ret]._orderByList = h[this]._orderByList,
                               ![n.ret]._limitValue = h[this]._limitValue,
                               ![n.ret]._offsetValue = h[this]._offsetValue],
              n.ret)

\* The lines every chain method of QueryChain starts with: a new chain with
\* copies of both arrays ([...this._conditions], [...this._orderByList]).
ChainCopy(h, this) ==
  LET h1 == Allocate(h, ArrayObject(Items(h, h[this]._conditions)))
      h2 == Allocate(h1, ArrayObject(Items(h, h[this]._orderByList)))
      n == NewQueryChain(h2, h[this]._table)
  IN Returned([n.heap EXCEPT ![n.ret]._conditions = FreshRef(h),
                               ![n.ret]._orderByList = FreshRef(h1),
                               ![n.ret]._limitValue = h[this]._limitValue,
                               ![n.ret]._offsetValue = h[this]._offsetValue],
              n.ret)

\* A loop that stops after the first entry of the conditions.
EqConditions_FirstOnly(table, conditions, i) ==
  IF i > Len(conditions) \/ i > 1 THEN <<>>
  ELSE IF HasKey(table.columns, conditions[i].k)
  THEN <<eq(Col(table, conditions[i].k), conditions[i].v)>>
  ELSE <<>>

RECURSIVE EqConditions(_, _, _)
\* The loop of QueryChain.where over Object.entries(conditions): an eq for
\* every key that names a column of the table; other keys are passed over.
EqConditions(table, conditions, i) ==
  IF i > Len(conditions) THEN <<>>
  ELSE (IF HasKey(table.columns, conditions[i].k)
        THEN <<eq(Col(table, conditions[i].k), conditions[i].v)>>
        ELSE <<>>)
       \o EqConditions(table, conditions, i + 1)

Chain_where(h, this, conditions) ==
  LET c == ChainCopy(h, this)
      arr == c.heap[c.ret]._conditions
  IN Returned([c.heap EXCEPT ![arr].items =
                 @ \o EqConditions(h[this]._table, conditions, 1)],
              c.ret)

Chain_orderBy(h, this, column, direction) ==
  LET c == ChainCopy(h, this)
      arr == c.heap[c.ret]._orderByList
  IN Returned([c.heap EXCEPT ![arr].items =
                 Append(@, [column |-> column, direction |-> direction])],
              c.ret)

Chain_limit(h, this, n) ==
  LET c == ChainCopy(h, this)
  IN Returned([c.heap EXCEPT ![c.ret]._limitValue = Some(n)], c.ret)

Chain_offset(h, this, n) ==
  LET c == ChainCopy(h, this)
  IN Returned([c.heap EXCEPT ![c.ret]._offsetValue = Some(n)], c.ret)

\* this._conditions.length === 1 ? this._conditions[0] : and(...this._conditions)
ChainCombined(conditions) ==
  IF Len(conditions) = 1 THEN conditions[1] ELSE and(conditions)

\* QueryChain.toSQL()
ChainToSQL(h, this) ==
  LET b == h[this]
      conditions == Items(h, b._conditions)
      orderByList == Items(h, b._orderByList)
      result == CondToSQL(ChainCombined(conditions), 1)
      parts == << <<"SELECT * FROM ", Quoted(b._table.tableName)>> >>
               \o (IF Len(conditions) > 0
                   THEN << <<"WHERE ">> \o result.sql >> ELSE <<>>)
               \o (IF Len(orderByList) > 0
                   THEN << <<"ORDER BY ">>
                           \o JoinParts([i \in 1..Len(orderByList) |->
                                <<Quoted(DbColumnName(b._table, orderByList[i].column)),
                                  " ", toUpperCase(orderByList[i].direction)>>],
                                ", ") >>
                   ELSE <<>>)
               \o LimitClause(b._limitValue) \o OffsetClause(b._offsetValue)
  IN Compiled(JoinParts(parts, " "),
              IF Len(conditions) > 0 THEN result.params ELSE <<>>)

\* toSQL() of whichever builder the reference names.
ToSQL(h, ref) ==
  CASE h[ref].class = "SelectQueryBuilder" -> SelectToSQL(h, ref)
    [] h[ref].class = "InsertQueryBuilder" -> InsertToSQL(h, ref)
    [] h[ref].class = "UpdateQueryBuilder" -> UpdateToSQL(h, ref)
    [] h[ref].class = "DeleteQueryBuilder" -> DeleteToSQL(h, ref)
    [] h[ref].class = "QueryChain" -> ChainToSQL(h, ref)

----------------------------------------------------------------------------
(* query.ts, model.ts: execution against the runtime gateway.  An async     *)
(* method runs up to its first await in the step that calls it: it rejects  *)
(* there, or it has made a gateway call and waits for it to settle.         *)

\* runtime.query / runtime.execute / runtime.executeReturning (sql, params)
\* state and answer record how the gateway settles the call's promise.
GatewayCall(method, sql, params) ==
  [method |-> method, sql |-> sql, params |-> params,
   state |-> "pending", answer |-> <<>>, reason |-> ""]

Rejects(error) == [error |-> error, calls |-> <<>>]
Awaits(call) == [error |-> "", calls |-> <<call>>]
\* The method returns without having called the gateway.
Returns == [error |-> "", calls |-> <<>>]

MissingRuntimeHint ==
  "Tana DB runtime not initialized. Are you running inside tana-edge?"
MissingRuntime == "Tana DB runtime not initialized"

\* SelectQueryBuilder.execute(), with rt whether globalThis.__tanaDb is bound
SelectExecute(h, this, rt) ==
  LET out == SelectToSQL(h, this) IN
  IF out.error # "" THEN Rejects(out.error)
  ELSE IF ~rt THEN Rejects(MissingRuntimeHint)
  ELSE Awaits(GatewayCall("query", SqlText(out.sql), out.params))

\* The lines execute() of the Insert, Update and Delete builders share.
\* This one calls executeReturning whether or not returning() was requested.
WriteExecute_AlwaysReturning(out, returning, rt) ==
  IF out.error # "" THEN Rejects(out.error)
  ELSE IF ~rt THEN Rejects(MissingRuntime)
  ELSE Awaits(GatewayCall("executeReturning", SqlText(out.sql), out.params))

\* This one consults the gateway before it compiles the statement.
WriteExecute_RuntimeFirst(out, returning, rt) ==
  IF ~rt THEN Rejects(MissingRuntime)
  ELSE IF out.error # "" THEN Rejects(out.error)
  ELSE Awaits(GatewayCall(IF returning THEN "executeReturning" ELSE "execute",
                          SqlText(out.sql), out.params))

\* The lines execute() of the Insert, Update and Delete builders share.
WriteExecute(out, returning, rt) ==
  IF out.error # "" THEN Rejects(out.error)
  ELSE IF ~rt THEN Rejects(MissingRuntime)
  ELSE Awaits(GatewayCall(IF returning THEN "executeReturning" ELSE "execute",
                          SqlText(out.sql), out.params))

InsertExecute(h, this, rt) == WriteExecute(InsertToSQL(h, this), h[this]._returning, rt)
UpdateExecute(h, this, rt) == WriteExecute(UpdateToSQL(h, this), h[this]._returning, rt)
DeleteExecute(h, this, rt) == WriteExecute(DeleteToSQL(h, this), h[this]._returning, rt)

\* QueryChain.all()
ChainAll(h, this, rt) ==
  LET out == ChainToSQL(h, this) IN
  IF ~rt THEN Rejects(MissingRuntime)
  ELSE Awaits(GatewayCall("query", SqlText(out.sql), out.params))

\* QueryChain.count(): its own statement, then the gateway.
ChainCount(h, this, rt) ==
  LET b == h[this]
      conditions == Items(h, b._conditions)
      result == CondToSQL(ChainCombined(conditions), 1)
      parts == << <<"SELECT COUNT(*) as count FROM ", Quoted(b._table.tableName)>> >>
               \o (IF Len(conditions) > 0
                   THEN << <<"WHERE ">> \o result.sql >> ELSE <<>>)
  IN IF ~rt THEN Rejects(MissingRuntime)
     ELSE Awaits(GatewayCall("query", SqlText(JoinParts(parts, " ")),
                             IF Len(conditions) > 0 THEN result.params ELSE <<>>))

\* execute() of whichever builder the reference names.
Execute(h, ref, rt) ==
  CASE h[ref].class = "SelectQueryBuilder" -> SelectExecute(h, ref, rt)
    [] h[ref].class = "InsertQueryBuilder" -> InsertExecute(h, ref, rt)
    [] h[ref].class = "UpdateQueryBuilder" -> UpdateExecute(h, ref, rt)
    [] h[ref].class = "DeleteQueryBuilder" -> DeleteExecute(h, ref, rt)

\* Number(results[0]?.count ?? 0), on values written as their literals.
CountOf(rows) ==
  IF rows = <<>> \/ ~HasKey(rows[1], "count") THEN "0" ELSE Lookup(rows[1], "count")

----------------------------------------------------------------------------
(* model.ts: model instances.  What createInstance returns is a Proxy over  *)
(* the instance object, and a method called on it runs with the Proxy as    *)
(* `this`: its assignments to this._attributes and this._persisted go       *)
(* through the Proxy's set trap.                                            *)

NoTable == Table("", <<>>)

\* An instance that is never marked persisted.
Instance_Unpersisted(table, attributes, persisted) ==
  [_table |-> table, _attributes |-> attributes, _persisted |-> FALSE]

\* createInstance(table, attributes, persisted): _attributes is a copy.
Instance(table, attributes, persisted) ==
  [_table |-> table, _attributes |-> attributes, _persisted |-> persisted]

NoInstance == Instance(NoTable, <<>>, FALSE)

\* The key taken to be the primary key whatever the flags say: the first.
PrimaryKey_FirstColumn(table) == Some(table.columns[1].k)

RECURSIVE PrimaryKeyFrom(_, _)
\* The loop over Object.entries(columns) that stops at the first column
\* whose metadata has isPrimaryKey.
PrimaryKeyFrom(columns, i) ==
  IF i > Len(columns) THEN Undefined
  ELSE IF _getMeta(columns[i].v).isPrimaryKey THEN Some(columns[i].k)
  ELSE PrimaryKeyFrom(columns, i + 1)

PrimaryKey(table) == PrimaryKeyFrom(table.columns, 1)

\* The set trap: a key of _attributes is assigned there; for any other key
\* the trap returns false, and the assignment, made in strict-mode code
\* (the source is an ES module), throws a TypeError.
ProxySet(instance, prop, value) ==
  IF HasKey(instance._attributes, prop)
  THEN [error |-> "",
        instance |-> [instance EXCEPT !._attributes =
                        [i \in 1..Len(@) |->
                           IF @[i].k = prop THEN Entry(prop, value) ELSE @[i]]]]
  ELSE [error |-> "TypeError", instance |-> instance]

\* The own properties of the instance object createInstance builds.
InstanceFields == {"_attributes", "_table", "_persisted"}
InstanceMethods == {"get", "update", "destroy", "reload", "save", "toJSON"}

\* What the instance object inherits from Object.prototype.
ObjectPrototype ==
  {"constructor", "hasOwnProperty", "isPrototypeOf", "propertyIsEnumerable",
   "toLocaleString", "toString", "valueOf"}

\* prop in target
InTarget(prop) == prop \in InstanceFields \cup InstanceMethods \cup ObjectPrototype

\* target[prop] for a property the target has, written as its literal; a
\* method is written by its name.
TargetValue(instance, prop) ==
  CASE prop = "_persisted" -> ToString(instance._persisted)
    [] prop = "_table" -> "[object Object]"
    [] prop = "_attributes" -> "[object Object]"
    [] OTHER -> "function " \o prop

\* A get trap that looks into _attributes first.
ProxyGet_AttributesFirst(instance, prop) ==
  IF HasKey(instance._attributes, prop) THEN Lookup(instance._attributes, prop)
  ELSE IF InTarget(prop) THEN TargetValue(instance, prop)
  ELSE "undefined"

\* The get trap: a property of the target wins over an attribute.
ProxyGet(instance, prop) ==
  IF InTarget(prop) THEN TargetValue(instance, prop)
  ELSE IF HasKey(instance._attributes, prop)
  THEN Lookup(instance._attributes, prop)
  ELSE "undefined"

\* instance.get(key): this._attributes is read through the get trap, which
\* finds _attributes in the target.
InstanceGet(instance, key) == ValueAt(instance._attributes, key)

\* instance.toJSON(): a copy of _attributes.
InstanceToJSON(instance) == instance._attributes

Unchanged(instance) == [error |-> "", instance |-> instance]
Failed(instance, error) == [error |-> error, instance |-> instance]

\* pkColumnBuilder and pkValue of an instance method
PkCondition(instance, pk) ==
  eq(Col(instance._table, pk), ValueAt(instance._attributes, pk))

\* instance.update(attrs), up to its await
InstanceUpdate(instance, attrs, rt) ==
  LET pk == PrimaryKey(instance._table) IN
  IF ~pk.some THEN Rejects("Cannot update: no primary key defined")
  ELSE LET u == db_update(<<>>, instance._table)
           s == Update_set(u.heap, u.ret, attrs)
           w == Update_where(s.heap, s.ret, PkCondition(instance, pk.val))
           r == Update_returning(w.heap, w.ret)
       IN UpdateExecute(r.heap, r.ret, rt)

\* instance.update(attrs), from its await on
InstanceUpdateSettled(instance, results) ==
  IF Len(results) > 0 THEN ProxySet(instance, "_attributes", results[1])
  ELSE Unchanged(instance)

\* instance.destroy(), up to its await
InstanceDestroy(instance, rt) ==
  LET pk == PrimaryKey(instance._table) IN
  IF ~pk.some THEN Rejects("Cannot delete: no primary key defined")
  ELSE LET d == db_delete(<<>>, instance._table)
           w == Delete_where(d.heap, d.ret, PkCondition(instance, pk.val))
       IN DeleteExecute(w.heap, w.ret, rt)

\* instance.destroy(), from its await on
InstanceDestroySettled(instance) == ProxySet(instance, "_persisted", FALSE)

\* instance.reload(), up to its await
InstanceReload(instance, rt) ==
  LET pk == PrimaryKey(instance._table) IN
  IF ~pk.some THEN Rejects("Cannot reload: no primary key defined")
  ELSE LET q == db_select(<<>>, Undefined)
           f == Select_from(q.heap, q.ret, instance._table)
           w == Select_where(f.heap, f.ret, PkCondition(instance, pk.val))
       IN SelectExecute(w.heap, w.ret, rt)

\* instance.reload(), from its await on
InstanceReloadSettled(instance, results) ==
  IF Len(results) = 0 THEN Failed(instance, "Record not found")
  ELSE ProxySet(instance, "_attributes", results[1])

\* The copy of the object that keeps every key: nothing is deleted from it.
Without_Nothing(obj, key) == obj

\* const copy = { ...obj }; delete copy[key]
Without(obj, key) == SelectSeq(obj, LAMBDA e : e.k # key)

\* This save refuses a persisted instance of a table without a primary key,
\* as update() does.
InstanceSave_NeedsKey(instance, rt) ==
  IF instance._persisted
  THEN LET pk == PrimaryKey(instance._table) IN
       IF pk.some
       THEN InstanceUpdate(instance, Without(instance._attributes, pk.val), rt)
       ELSE Rejects("Cannot save: no primary key defined")
  ELSE LET i == db_insert(<<>>, instance._table)
           v == Insert_values(i.heap, i.ret, OneRow(instance._attributes))
           r == Insert_returning(v.heap, v.ret)
       IN InsertExecute(r.heap, r.ret, rt)

\* instance.save(), up to its await: update(attributes without the primary
\* key) when persisted, an insert of the attributes otherwise.
InstanceSave(instance, rt) ==
  IF instance._persisted
  THEN LET pk == PrimaryKey(instance._table) IN
       IF pk.some
       THEN InstanceUpdate(instance, Without(instance._attributes, pk.val), rt)
       ELSE Returns
  ELSE LET i == db_insert(<<>>, instance._table)
           v == Insert_values(i.heap, i.ret, OneRow(instance._attributes))
           r == Insert_returning(v.heap, v.ret)
       IN InsertExecute(r.heap, r.ret, rt)

\* This save fails when its INSERT returns no row, as Model.create does.
InstanceSaveSettled_InsertFailed(instance, wasPersisted, results) ==
  IF wasPersisted THEN InstanceUpdateSettled(instance, results)
  ELSE IF Len(results) = 0 THEN Failed(instance, "Insert failed")
  ELSE LET first == ProxySet(instance, "_attributes", results[1])
       IN IF first.error # "" THEN first
          ELSE ProxySet(first.instance, "_persisted", TRUE)

\* instance.save(), from its await on; wasPersisted is the flag as save()
\* read it.  The two assignments follow one another: the second is not
\* reached when the first throws.
InstanceSaveSettled(instance, wasPersisted, results) ==
  IF wasPersisted THEN InstanceUpdateSettled(instance, results)
  ELSE IF Len(results) = 0 THEN Unchanged(instance)
  ELSE LET first == ProxySet(instance, "_attributes", results[1])
       IN IF first.error # "" THEN first
          ELSE ProxySet(first.instance, "_persisted", TRUE)

\* This find compares the primary key with the key's name, not with id.
ModelFindCall_ByKeyName(table, id, rt) ==
  LET pk == PrimaryKey(table) IN
  IF ~pk.some THEN Rejects("Cannot find: no primary key defined")
  ELSE LET q == db_select(<<>>, Undefined)
           f == Select_from(q.heap, q.ret, table)
           w == Select_where(f.heap, f.ret, eq(Col(table, pk.val), pk.val))
       IN SelectExecute(w.heap, w.ret, rt)

\* model(table).find(id), up to its await
ModelFindCall(table, id, rt) ==
  LET pk == PrimaryKey(table) IN
  IF ~pk.some THEN Rejects("Cannot find: no primary key defined")
  ELSE LET q == db_select(<<>>, Undefined)
           f == Select_from(q.heap, q.ret, table)
           w == Select_where(f.heap, f.ret, eq(Col(table, pk.val), id))
       IN SelectExecute(w.heap, w.ret, rt)

\* model(table).findBy(attrs), up to its await:
\* new QueryChain(table).where(attrs).first(), first() being limit(1).all()
ModelFindByCall(table, attrs, rt) ==
  LET c == NewQueryChain(<<>>, table)
      w == Chain_where(c.heap, c.ret, attrs)
      l == Chain_limit(w.heap, w.ret, 1)
  IN ChainAll(l.heap, l.ret, rt)

\* This create does not request the inserted row back.
ModelCreateCall_NoReturning(table, attrs, rt) ==
  LET i == db_insert(<<>>, table)
      v == Insert_values(i.heap, i.ret, OneRow(attrs))
  IN InsertExecute(v.heap, v.ret, rt)

\* model(table).create(attrs), up to its await
ModelCreateCall(table, attrs, rt) ==
  LET i == db_insert(<<>>, table)
      v == Insert_values(i.heap, i.ret, OneRow(attrs))
      r == Insert_returning(v.heap, v.ret)
  IN InsertExecute(r.heap, r.ret, rt)

----------------------------------------------------------------------------
(* Bounds of the model *)

\* Condition nodes a program holds at one time.
MaxNodes == 4
\* Conditions a program holds at one time.
MaxConds == 3
\* Largest start index a condition is compiled with on its own.
MaxStart == 2
\* Joins added to one select builder.
MaxJoins == 2
\* Conditions, and orderings, accumulated by one QueryChain.
MaxChain == 2
\* Optional clauses the builders of a two-variable program hold between them.
MaxClauses == 2
\* Asynchronous operations a program has in flight at one time.
MaxTasks == 1
\* Model instances a program holds.
MaxInstances == 1

----------------------------------------------------------------------------
(* State *)

VARIABLES
  conds,      \* the conditions a program has built and still holds, oldest first
  compiled,   \* the last stand-alone toSQL(k) call: its receiver, k, its result
  heap,       \* the builder objects and arrays in use, by reference
  slots,      \* the program's variables: each holds a builder's reference or null
  last,       \* the last statement: the variable it assigned (0 when the call
              \* threw), the error thrown ("" when it returned)
  made,       \* for each variable, whether a gateway was bound when the builder
              \* it holds was constructed
  runtime,    \* whether globalThis.__tanaDb is bound
  tasks,      \* the asynchronous operations in flight or just settled, each with
              \* the gateway calls it has made
  instances,  \* the model instances the program holds
  stored      \* the rows a gateway that stores what is inserted holds

\* The variables of a program: it has two, b1 and b2.
ProgramVars == {1, 2}

condVars == <<conds, compiled>>
buildVars == <<heap, slots, last, made>>
runVars == <<runtime, tasks, instances, stored>>
vars == <<conds, compiled, heap, slots, last, made, runtime, tasks, instances,
         stored>>

Init ==
  /\ conds = <<>>
  /\ compiled = Undefined
  /\ heap = <<>>
  /\ slots = [k \in ProgramVars |-> NullRef]
  /\ last = [slot |-> 0, error |-> ""]
  /\ made = [k \in ProgramVars |-> FALSE]
  /\ runtime = FALSE
  /\ tasks = <<>>
  /\ instances = <<>>
  /\ stored = <<>>

----------------------------------------------------------------------------
(* Programs that build condition trees and compile them *)

RECURSIVE NodeCount(_)
RECURSIVE NodeCountAll(_)
NodeCount(c) == 1 + NodeCountAll(c.conditions)
NodeCountAll(cs) ==
  IF cs = <<>> THEN 0 ELSE NodeCount(Head(cs)) + NodeCountAll(Tail(cs))

\* The leaf conditions programs build: every operator function, and the
\* array operators with no and with several values.
LeafInputs ==
  { eq(Col(posts, "published"), "true"),
    gt(Col(posts, "readTime"), "5"),
    like(Col(posts, "title"), "H%"),
    between(Col(posts, "readTime"), "5", "9"),
    inArray(Col(posts, "id"), <<>>),
    inArray(Col(posts, "id"), <<"u1", "u2", "u3">>),
    notInArray(Col(posts, "id"), <<"u1", "u2">>),
    isNull(Col(posts, "readTime")),
    isNotNull(Col(posts, "title")) }

Building == compiled = Undefined

\* const c = eq(...)  (or any other leaf operator function)
MakeLeaf(leaf) ==
  /\ Building
  /\ Len(conds) < MaxConds
  /\ NodeCountAll(conds) < MaxNodes
  /\ conds' = Append(conds, leaf)
  /\ UNCHANGED compiled
  /\ UNCHANGED <<buildVars, runVars>>

\* const c = and(...the n newest conditions)
MakeAnd(n) ==
  /\ Building
  /\ n \in 0..Len(conds)
  /\ NodeCountAll(conds) < MaxNodes
  /\ conds' = Append(SubSeq(conds, 1, Len(conds) - n),
                     and(SubSeq(conds, Len(conds) - n + 1, Len(conds))))
  /\ UNCHANGED compiled
  /\ UNCHANGED <<buildVars, runVars>>

\* const c = or(...the n newest conditions)
MakeOr(n) ==
  /\ Building
  /\ n \in 0..Len(conds)
  /\ NodeCountAll(conds) < MaxNodes
  /\ conds' = Append(SubSeq(conds, 1, Len(conds) - n),
                     or(SubSeq(conds, Len(conds) - n + 1, Len(conds))))
  /\ UNCHANGED compiled
  /\ UNCHANGED <<buildVars, runVars>>

\* const c = not(the newest condition)
MakeNot ==
  /\ Building
  /\ conds # <<>>
  /\ NodeCountAll(conds) < MaxNodes
  /\ conds' = [conds EXCEPT ![Len(conds)] = not(conds[Len(conds)])]
  /\ UNCHANGED compiled
  /\ UNCHANGED <<buildVars, runVars>>

\* c.toSQL(k) on the newest condition
CompileCond(k) ==
  /\ Building
  /\ conds # <<>>
  /\ compiled' = Some([cond |-> conds[Len(conds)], start |-> k,
                       result |-> CondToSQL(conds[Len(conds)], k)])
  /\ UNCHANGED conds
  /\ UNCHANGED <<buildVars, runVars>>

\* The program ends; another starts.
CondReset ==
  /\ ~Building
  /\ conds' = <<>>
  /\ compiled' = Undefined
  /\ UNCHANGED <<buildVars, runVars>>

CondNext ==
  \/ \E leaf \in LeafInputs : MakeLeaf(leaf)
  \/ \E n \in 0..MaxConds : MakeAnd(n)
  \/ \E n \in 0..MaxConds : MakeOr(n)
  \/ MakeNot
  \/ \E k \in 1..MaxStart : CompileCond(k)
  \/ CondReset

SpecCond == Init /\ [][CondNext]_vars

----------------------------------------------------------------------------
(* Programs that build statements.  A step is one statement of the form     *)
(*   v_j = v_i.method(arguments)     or     v_j = db.entry(arguments)       *)
(* over the program's variables.  A call that throws assigns nothing.       *)

Holds(i, class) == slots[i] # NullRef /\ heap[slots[i]].class = class

Assign(j, r) ==
  LET kept == Collect(r.heap, IF r.error = "" THEN [slots EXCEPT ![j] = r.ret]
                                              ELSE slots)
  IN /\ heap' = kept.heap
     /\ slots' = kept.slots
     /\ last' = [slot |-> IF r.error = "" THEN j ELSE 0, error |-> r.error]
     /\ made' = IF r.error = "" THEN [made EXCEPT ![j] = runtime] ELSE made
     /\ UNCHANGED <<condVars, runVars>>

DbSelect(j, columns) == Assign(j, db_select(heap, columns))
DbInsert(j, table) == Assign(j, db_insert(heap, table))
DbUpdate(j, table) == Assign(j, db_update(heap, table))
DbDelete(j, table) == Assign(j, db_delete(heap, table))
NewChain(j, table) == Assign(j, NewQueryChain(heap, table))

SelectSelect(i, j, columns) ==
  /\ Holds(i, "SelectQueryBuilder")
  /\ Assign(j, Select_select(heap, slots[i], columns))

SelectFrom(i, j, table) ==
  /\ Holds(i, "SelectQueryBuilder")
  /\ Assign(j, Select_from(heap, slots[i], table))

SelectWhere(i, j, condition) ==
  /\ Holds(i, "SelectQueryBuilder")
  /\ Assign(j, Select_where(heap, slots[i], condition))

CanJoin(i) ==
  /\ Holds(i, "SelectQueryBuilder")
  /\ Len(Items(heap, heap[slots[i]]._joins)) < MaxJoins

SelectInnerJoin(i, j, table, on) ==
  /\ CanJoin(i)
  /\ Assign(j, Select_innerJoin(heap, slots[i], table, on))

SelectLeftJoin(i, j, table, on) ==
  /\ CanJoin(i)
  /\ Assign(j, Select_leftJoin(heap, slots[i], table, on))

SelectRightJoin(i, j, table, on) ==
  /\ CanJoin(i)
  /\ Assign(j, Select_rightJoin(heap, slots[i], table, on))

SelectOrderBy(i, j, orders) ==
  /\ Holds(i, "SelectQueryBuilder")
  /\ Assign(j, Select_orderBy(heap, slots[i], orders))

SelectGroupBy(i, j, columns) ==
  /\ Holds(i, "SelectQueryBuilder")
  /\ Assign(j, Select_groupBy(heap, slots[i], columns))

SelectLimit(i, j, n) ==
  /\ Holds(i, "SelectQueryBuilder")
  /\ Assign(j, Select_limit(heap, slots[i], n))

SelectOffset(i, j, n) ==
  /\ Holds(i, "SelectQueryBuilder")
  /\ Assign(j, Select_offset(heap, slots[i], n))

InsertValues(i, j, data) ==
  /\ Holds(i, "InsertQueryBuilder")
  /\ Assign(j, Insert_values(heap, slots[i], data))

InsertReturning(i, j) ==
  /\ Holds(i, "InsertQueryBuilder")
  /\ Assign(j, Insert_returning(heap, slots[i]))

UpdateSet(i, j, data) ==
  /\ Holds(i, "UpdateQueryBuilder")
  /\ Assign(j, Update_set(heap, slots[i], data))

UpdateWhere(i, j, condition) ==
  /\ Holds(i, "UpdateQueryBuilder")
  /\ Assign(j, Update_where(heap, slots[i], condition))

UpdateReturning(i, j) ==
  /\ Holds(i, "UpdateQueryBuilder")
  /\ Assign(j, Update_returning(heap, slots[i]))

DeleteWhere(i, j, condition) ==
  /\ Holds(i, "DeleteQueryBuilder")
  /\ Assign(j, Delete_where(heap, slots[i], condition))

DeleteReturning(i, j) ==
  /\ Holds(i, "DeleteQueryBuilder")
  /\ Assign(j, Delete_returning(heap, slots[i]))

ChainWhere(i, j, conditions) ==
  /\ Holds(i, "QueryChain")
  /\ Len(Items(heap, heap[slots[i]]._conditions)) < MaxChain
  /\ Assign(j, Chain_where(heap, slots[i], conditions))

ChainOrderBy(i, j, column, direction) ==
  /\ Holds(i, "QueryChain")
  /\ Len(Items(heap, heap[slots[i]]._orderByList)) < MaxChain
  /\ Assign(j, Chain_orderBy(heap, slots[i], column, direction))

ChainLimit(i, j, n) ==
  /\ Holds(i, "QueryChain")
  /\ Assign(j, Chain_limit(heap, slots[i], n))

ChainOffset(i, j, n) ==
  /\ Holds(i, "QueryChain")
  /\ Assign(j, Chain_offset(heap, slots[i], n))

(* The arguments programs pass. *)

TableInputs == {posts, users}

SelectInputs ==
  { Undefined,
    Some(ColumnMap(<< Entry("readTime", SelectedColumn(Col(posts, "readTime"))),
                      Entry("n", count(Undefined)),
                      Entry("longest", max(Col(posts, "readTime"))),
                      Entry("raw", OtherValue) >>)) }

WhereInputs ==
  { eq(Col(posts, "published"), "true"),
    and(<< between(Col(posts, "readTime"), "5", "9"),
           or(<< inArray(Col(posts, "id"), <<"u1", "u2", "u3">>),
                 not(isNull(Col(posts, "title"))) >>) >>) }

OnInputs == { between(Col(users, "name"), "a", "m") }

OrderInputs ==
  { <<>>,
    << desc(Col(posts, "title")) >>,
    << ColumnArg(Col(posts, "readTime")), asc(Col(posts, "title")) >>,
    << ColumnArg(Col(posts, "title")), StringArg("desc") >> }

GroupInputs ==
  { <<>>, << Col(posts, "published"), Col(posts, "readTime") >> }

LimitInputs == {10}
OffsetInputs == {20}

RowInputs ==
  { OneRow(<< Entry("title", "Hello") >>),
    OneRow(<<>>),
    RowArray(<<>>),
    RowArray(<< << Entry("readTime", "5"), Entry("title", "A") >>,
                << Entry("title", "B"), Entry("published", "true") >> >>) }

SetInputs ==
  { <<>>,
    << Entry("title", "Bye") >>,
    << Entry("readTime", "7"), Entry("title", "Bye"), Entry("note", "x") >> }

AttrInputs ==
  { << Entry("published", "true") >>,
    << Entry("readTime", "5"), Entry("nosuch", "1"), Entry("title", "Hello") >>,
    <<>> }

ChainOrderInputs == {"title", "readTime", "nosuch"}
Directions == {"asc", "desc"}

\* A program with one variable: each statement replaces the builder it holds.
BuildNext ==
  \/ \E columns \in SelectInputs : DbSelect(1, columns)
  \/ \E table \in TableInputs : DbInsert(1, table)
  \/ \E table \in TableInputs : DbUpdate(1, table)
  \/ \E table \in TableInputs : DbDelete(1, table)
  \/ \E table \in TableInputs : NewChain(1, table)
  \/ \E columns \in SelectInputs : SelectSelect(1, 1, columns)
  \/ SelectFrom(1, 1, posts)
  \/ \E condition \in WhereInputs : SelectWhere(1, 1, condition)
  \/ \E on \in OnInputs : SelectInnerJoin(1, 1, users, on)
  \/ \E on \in OnInputs : SelectLeftJoin(1, 1, users, on)
  \/ \E on \in OnInputs : SelectRightJoin(1, 1, users, on)
  \/ \E orders \in OrderInputs : SelectOrderBy(1, 1, orders)
  \/ \E columns \in GroupInputs : SelectGroupBy(1, 1, columns)
  \/ \E n \in LimitInputs : SelectLimit(1, 1, n)
  \/ \E n \in OffsetInputs : SelectOffset(1, 1, n)
  \/ \E data \in RowInputs : InsertValues(1, 1, data)
  \/ InsertReturning(1, 1)
  \/ \E data \in SetInputs : UpdateSet(1, 1, data)
  \/ \E condition \in WhereInputs : UpdateWhere(1, 1, condition)
  \/ UpdateReturning(1, 1)
  \/ \E condition \in WhereInputs : DeleteWhere(1, 1, condition)
  \/ DeleteReturning(1, 1)
  \/ \E conditions \in AttrInputs : ChainWhere(1, 1, conditions)
  \/ \E column \in ChainOrderInputs, direction \in Directions :
       ChainOrderBy(1, 1, column, direction)
  \/ \E n \in LimitInputs : ChainLimit(1, 1, n)
  \/ \E n \in OffsetInputs : ChainOffset(1, 1, n)

SpecBuild == Init /\ [][BuildNext]_vars

----------------------------------------------------------------------------
(* Programs with two variables: a statement calls a method on the builder   *)
(* a variable holds and assigns the result to that variable or to a later   *)
(* one, so a program keeps a builder while it goes on deriving others from  *)
(* it and from what it derived.                                             *)

Count(flag) == IF flag THEN 1 ELSE 0

\* The clauses a builder has been given beyond those its statement cannot
\* do without (the FROM of a Select, the rows of an Insert, the assignments
\* of an Update).
Clauses(h, ref) ==
  LET b == h[ref] IN
  CASE b.class = "SelectQueryBuilder" ->
         Count(~b._select.star) + Count(b._where.some)
         + Len(Items(h, b._joins)) + Count(Len(Items(h, b._orderBy)) > 0)
         + Count(Len(Items(h, b._groupBy)) > 0)
         + Count(b._limit.some) + Count(b._offset.some)
    [] b.class = "InsertQueryBuilder" -> Count(b._returning)
    [] b.class = "UpdateQueryBuilder" ->
         Count(b._where.some) + Count(b._returning)
    [] b.class = "DeleteQueryBuilder" ->
         Count(b._where.some) + Count(b._returning)
    [] b.class = "QueryChain" ->
         Len(Items(h, b._conditions)) + Len(Items(h, b._orderByList))
         + Count(b._limitValue.some) + Count(b._offsetValue.some)

RECURSIVE TotalClauses(_, _, _)
TotalClauses(h, vs, k) ==
  IF k > Len(vs) THEN 0
  ELSE (IF vs[k] = NullRef THEN 0 ELSE Clauses(h, vs[k]))
       + TotalClauses(h, vs, k + 1)

Small == TotalClauses(heap, slots, 1) <= MaxClauses

ShareTable == posts
ShareWhere == eq(Col(posts, "published"), "true")
ShareOn == eq(Col(users, "id"), "u1")
ShareOrder == << desc(Col(posts, "title")) >>
ShareGroup == << Col(posts, "published") >>
ShareRows == OneRow(<< Entry("title", "Hello") >>)
ShareSet == << Entry("title", "Bye") >>

ShareNext ==
  \/ \E j \in ProgramVars : DbSelect(j, Undefined) /\ Small'
  \/ \E j \in ProgramVars : DbInsert(j, ShareTable) /\ Small'
  \/ \E j \in ProgramVars : DbUpdate(j, ShareTable) /\ Small'
  \/ \E j \in ProgramVars : DbDelete(j, ShareTable) /\ Small'
  \/ \E j \in ProgramVars : \E i \in 1..j :
       SelectSelect(i, j, Some(ColumnMap(<<Entry("n", count(Undefined))>>))) /\ Small'
  \/ \E j \in ProgramVars : \E i \in 1..j : SelectFrom(i, j, ShareTable) /\ Small'
  \/ \E j \in ProgramVars : \E i \in 1..j : SelectWhere(i, j, ShareWhere) /\ Small'
  \/ \E j \in ProgramVars : \E i \in 1..j : SelectInnerJoin(i, j, users, ShareOn) /\ Small'
  \/ \E j \in ProgramVars : \E i \in 1..j : SelectLeftJoin(i, j, users, ShareOn) /\ Small'
  \/ \E j \in ProgramVars : \E i \in 1..j : SelectRightJoin(i, j, users, ShareOn) /\ Small'
  \/ \E j \in ProgramVars : \E i \in 1..j : SelectOrderBy(i, j, ShareOrder) /\ Small'
  \/ \E j \in ProgramVars : \E i \in 1..j : SelectGroupBy(i, j, ShareGroup) /\ Small'
  \/ \E j \in ProgramVars : \E i \in 1..j, n \in LimitInputs : SelectLimit(i, j, n) /\ Small'
  \/ \E j \in ProgramVars : \E i \in 1..j, n \in OffsetInputs : SelectOffset(i, j, n) /\ Small'
  \/ \E j \in ProgramVars : \E i \in 1..j : InsertValues(i, j, ShareRows) /\ Small'
  \/ \E j \in ProgramVars : \E i \in 1..j : InsertReturning(i, j) /\ Small'
  \/ \E j \in ProgramVars : \E i \in 1..j : UpdateSet(i, j, ShareSet) /\ Small'
  \/ \E j \in ProgramVars : \E i \in 1..j : UpdateWhere(i, j, ShareWhere) /\ Small'
  \/ \E j \in ProgramVars : \E i \in 1..j : UpdateReturning(i, j) /\ Small'
  \/ \E j \in ProgramVars : \E i \in 1..j : DeleteWhere(i, j, ShareWhere) /\ Small'
  \/ \E j \in ProgramVars : \E i \in 1..j : DeleteReturning(i, j) /\ Small'

SpecShare == Init /\ [][ShareNext]_vars

----------------------------------------------------------------------------
(* Asynchronous operations.  The step that calls an async method runs it up *)
(* to its first await; the step in which the gateway settles the call runs  *)
(* the rest of the method.  A program keeps the outcome of a settled        *)
(* operation until it starts the next one.                                  *)

\* The gateway consulted by an execute(): the one bound when execute() is
\* called.  This one is the gateway bound when the builder was constructed.
RuntimeBound_AtConstruction(now, atConstruction) == atConstruction

\* const runtime = globalThis.__tanaDb, read inside execute()
RuntimeBound(now, atConstruction) == now

Pending(ts) == SelectSeq(ts, LAMBDA t : t.status = "awaiting")

\* The program has fewer than MaxTasks operations in flight.
CanStart == Len(Pending(tasks)) < MaxTasks

\* An operation after the step that called it.  op names the method; class
\* and returning describe the builder it ran on, bound and made the gateway
\* at the call and at the builder's construction; inst and before are the
\* instance it ran on, and that instance as the call found it; table is the
\* table of a model method, args the attributes (or the id) it was given.
Started(op, class, returning, atConstruction, inst, table, args, sync) ==
  [op |-> op, class |-> class, returning |-> returning,
   bound |-> runtime, made |-> atConstruction,
   inst |-> inst,
   before |-> IF inst = 0 THEN NoInstance ELSE instances[inst],
   table |-> table, args |-> args,
   status |-> IF sync.error # "" THEN "rejected"
              ELSE IF sync.calls = <<>> THEN "resolved"
              ELSE "awaiting",
   error |-> sync.error, rows |-> <<>>, scalar |-> "",
   calls |-> sync.calls]

Start(task) == tasks' = Append(Pending(tasks), task)

\* globalThis.__tanaDb = gateway, by the host
BindRuntime ==
  /\ ~runtime
  /\ runtime' = TRUE
  /\ UNCHANGED <<condVars, buildVars, tasks, instances, stored>>

\* v_i.execute() on a Select, Insert, Update or Delete builder
BuilderExecute(i) ==
  /\ slots[i] # NullRef
  /\ heap[slots[i]].class # "QueryChain"
  /\ Start(Started("execute", heap[slots[i]].class,
                   heap[slots[i]].class # "SelectQueryBuilder"
                     /\ heap[slots[i]]._returning,
                   made[i], 0, NoTable, <<>>,
                   Execute(heap, slots[i], RuntimeBound(runtime, made[i]))))
  /\ UNCHANGED <<condVars, buildVars, runtime, instances, stored>>

\* v_i.all() on a QueryChain
ChainAllCall(i) ==
  /\ Holds(i, "QueryChain")
  /\ Start(Started("all", "QueryChain", FALSE, made[i], 0, NoTable, <<>>,
                   ChainAll(heap, slots[i], RuntimeBound(runtime, made[i]))))
  /\ UNCHANGED <<condVars, buildVars, runtime, instances, stored>>

\* v_i.count() on a QueryChain
ChainCountCall(i) ==
  /\ Holds(i, "QueryChain")
  /\ Start(Started("count", "QueryChain", FALSE, made[i], 0, NoTable, <<>>,
                   ChainCount(heap, slots[i], RuntimeBound(runtime, made[i]))))
  /\ UNCHANGED <<condVars, buildVars, runtime, instances, stored>>

\* The calls of an operation, the one it was awaiting settled.
LastSettled(calls, state, answer) ==
  [i \in 1..Len(calls) |->
     IF i = Len(calls)
     THEN [calls[i] EXCEPT !.state = state, !.answer = answer]
     ELSE calls[i]]

\* What the rest of a method leaves: the operation settled, and the
\* instances as the method leaves them.
Resolved(task, rows, scalar, insts) ==
  [task |-> [task EXCEPT !.status = "resolved", !.rows = rows, !.scalar = scalar],
   instances |-> insts]

Rejected(task, error, insts) ==
  [task |-> [task EXCEPT !.status = "rejected", !.error = error],
   instances |-> insts]

\* The method's outcome from what its last lines did to the instance.
InstanceOutcome(task, done, insts) ==
  LET after == [insts EXCEPT ![task.inst] = done.instance]
  IN IF done.error = "" THEN Resolved(task, <<>>, "", after)
     ELSE Rejected(task, done.error, after)

\* The rest of each method, from its await on.
Continue(task, rows, insts) ==
  CASE task.op = "execute" ->
         \* return runtime.query(...) / return runtime.executeReturning(...),
         \* or: await runtime.execute(...); return []
         IF task.calls[Len(task.calls)].method = "execute"
         THEN Resolved(task, <<>>, "", insts)
         ELSE Resolved(task, rows, "", insts)
    [] task.op = "all" -> Resolved(task, rows, "", insts)
    [] task.op = "count" -> Resolved(task, <<>>, CountOf(rows), insts)
    [] task.op = "find" ->
         IF Len(rows) = 0 THEN Resolved(task, <<>>, "null", insts)
         ELSE Resolved([task EXCEPT !.inst = Len(insts) + 1], <<>>, "",
                       Append(insts, Instance(task.table, rows[1], TRUE)))
    [] task.op = "findBy" ->
         \* results[0] ?? null, then: if (!result) return null
         IF Len(rows) = 0 THEN Resolved(task, <<>>, "null", insts)
         ELSE Resolved([task EXCEPT !.inst = Len(insts) + 1], <<>>, "",
                       Append(insts, Instance(task.table, rows[1], TRUE)))
    [] task.op = "create" ->
         IF Len(rows) = 0 THEN Rejected(task, "Insert failed", insts)
         ELSE Resolved([task EXCEPT !.inst = Len(insts) + 1], <<>>, "",
                       Append(insts, Instance(task.table, rows[1], TRUE)))
    [] task.op = "update" ->
         InstanceOutcome(task, InstanceUpdateSettled(insts[task.inst], rows), insts)
    [] task.op = "destroy" ->
         InstanceOutcome(task, InstanceDestroySettled(insts[task.inst]), insts)
    [] task.op = "reload" ->
         InstanceOutcome(task, InstanceReloadSettled(insts[task.inst], rows), insts)
    [] task.op = "save" ->
         InstanceOutcome(task, InstanceSaveSettled(insts[task.inst],
                                                   task.before._persisted, rows),
                         insts)

StoredPost == << Entry("id", "u1"), Entry("title", "Stored") >>
StoredEvent == << Entry("kind", "click") >>
StoredTag == << Entry("id", "t1") >>
CountRow == << Entry("count", "2") >>

RowsInputs == { <<>>, <<StoredPost>>, <<StoredEvent>>, <<StoredTag>>, <<CountRow>> }

\* What the gateway may answer an operation's call with.
GatewayRows(task) ==
  IF task.op = "count" THEN { <<>>, <<CountRow>> }
  ELSE IF task.table = events THEN { <<>>, <<StoredEvent>> }
  ELSE IF task.table = tags THEN { <<>>, <<StoredTag>> }
  ELSE { <<>>, <<StoredPost>> }

\* The promise of the call operation t awaits is fulfilled with rows.
GatewayResolve(t, rows) ==
  /\ t \in 1..Len(tasks)
  /\ tasks[t].status = "awaiting"
  /\ rows \in GatewayRows(tasks[t])
  /\ LET answered == [tasks[t] EXCEPT !.calls = LastSettled(@, "fulfilled", rows)]
         c == Continue(answered, rows, instances)
     IN /\ tasks' = [tasks EXCEPT ![t] = c.task]
        /\ instances' = c.instances
  /\ UNCHANGED <<condVars, buildVars, runtime, stored>>

\* The errors a gateway reports.
GatewayErrors == {"connection lost", "unique constraint violated"}

\* The error a method is rejected with when the call it awaits is rejected
\* with e.  This one reports every failure of the gateway as 'Query failed'.
Uncaught_Translated(op, e) == "Query failed"

\* No method awaits inside a try: the rejection of the call is the method's.
Uncaught(op, e) == e

\* The promise of the call operation t awaits is rejected with e.
GatewayReject(t, e) ==
  /\ t \in 1..Len(tasks)
  /\ tasks[t].status = "awaiting"
  /\ LET answered == [tasks[t] EXCEPT
                        !.calls = LastSettled(@, "rejected", <<>>),
                        !.calls[Len(tasks[t].calls)].reason = e]
     IN tasks' = [tasks EXCEPT ![t] =
                    Rejected(answered, Uncaught(tasks[t].op, e), instances).task]
  /\ UNCHANGED <<condVars, buildVars, runtime, instances, stored>>

\* A program that builds a statement in its variable b1 and executes it.
ExecNext ==
  \/ BindRuntime
  \/ DbSelect(1, Undefined)
  \/ SelectFrom(1, 1, ShareTable)
  \/ DbInsert(1, ShareTable)
  \/ InsertValues(1, 1, ShareRows)
  \/ InsertReturning(1, 1)
  \/ DbUpdate(1, ShareTable)
  \/ UpdateSet(1, 1, ShareSet)
  \/ UpdateReturning(1, 1)
  \/ DbDelete(1, ShareTable)
  \/ DeleteReturning(1, 1)
  \/ NewChain(1, ShareTable)
  \/ BuilderExecute(1) /\ CanStart
  \/ ChainAllCall(1) /\ CanStart
  \/ ChainCountCall(1) /\ CanStart
  \/ \E t \in 1..MaxTasks, rows \in RowsInputs : GatewayResolve(t, rows)
  \/ \E t \in 1..MaxTasks, e \in GatewayErrors : GatewayReject(t, e)

SpecExec == Init /\ [][ExecNext]_vars

----------------------------------------------------------------------------
(* Programs that use models *)

RoomForInstance ==
  Len(instances)
    + Len(SelectSeq(tasks, LAMBDA t : t.status = "awaiting"
                                      /\ t.op \in {"find", "findBy", "create"}))
    < MaxInstances

\* model(table).build(attrs)
ModelBuild(table, attrs) ==
  /\ instances' = Append(instances, Instance(table, attrs, FALSE))
  /\ UNCHANGED <<condVars, buildVars, runtime, tasks, stored>>

\* model(table).find(id)
ModelFind(table, id) ==
  /\ Start(Started("find", "", FALSE, FALSE, 0, table, <<Entry("id", id)>>,
                   ModelFindCall(table, id, runtime)))
  /\ UNCHANGED <<condVars, buildVars, runtime, instances, stored>>

\* model(table).findBy(attrs)
ModelFindBy(table, attrs) ==
  /\ Start(Started("findBy", "", FALSE, FALSE, 0, table, attrs,
                   ModelFindByCall(table, attrs, runtime)))
  /\ UNCHANGED <<condVars, buildVars, runtime, instances, stored>>

\* model(table).create(attrs)
ModelCreate(table, attrs) ==
  /\ Start(Started("create", "", FALSE, FALSE, 0, table, attrs,
                   ModelCreateCall(table, attrs, runtime)))
  /\ UNCHANGED <<condVars, buildVars, runtime, instances, stored>>

\* instances[n].update(attrs)
InstanceUpdateCall(n, attrs) ==
  /\ n \in 1..Len(instances)
  /\ Start(Started("update", "", FALSE, FALSE, n, instances[n]._table, attrs,
                   InstanceUpdate(instances[n], attrs, runtime)))
  /\ UNCHANGED <<condVars, buildVars, runtime, instances, stored>>

\* instances[n].destroy()
InstanceDestroyCall(n) ==
  /\ n \in 1..Len(instances)
  /\ Start(Started("destroy", "", FALSE, FALSE, n, instances[n]._table, <<>>,
                   InstanceDestroy(instances[n], runtime)))
  /\ UNCHANGED <<condVars, buildVars, runtime, instances, stored>>

\* instances[n].reload()
InstanceReloadCall(n) ==
  /\ n \in 1..Len(instances)
  /\ Start(Started("reload", "", FALSE, FALSE, n, instances[n]._table, <<>>,
                   InstanceReload(instances[n], runtime)))
  /\ UNCHANGED <<condVars, buildVars, runtime, instances, stored>>

\* An assignment that also reaches the parameters of the statements the
\* instance's operations in flight have sent, as if those were read from the
\* attributes when the gateway gets to them.
InstanceAssign_Live(n, key, value) ==
  /\ n \in 1..Len(instances)
  /\ instances' = [instances EXCEPT ![n] = ProxySet(@, key, value).instance]
  /\ LET old == ValueAt(instances[n]._attributes, key)
         live(params) == [p \in 1..Len(params) |->
                            IF params[p] = old THEN value ELSE params[p]]
         sent(calls) == [c \in 1..Len(calls) |->
                           [calls[c] EXCEPT !.params = live(calls[c].params)]]
     IN tasks' = [t \in 1..Len(tasks) |->
                    IF tasks[t].inst = n /\ tasks[t].status = "awaiting"
                    THEN [tasks[t] EXCEPT !.calls = sent(tasks[t].calls)]
                    ELSE tasks[t]]
  /\ UNCHANGED <<condVars, buildVars, runtime, stored>>

\* instances[n][key] = value, through the Proxy; a key that is no attribute
\* makes the assignment throw and changes nothing.
InstanceAssign(n, key, value) ==
  /\ n \in 1..Len(instances)
  /\ instances' = [instances EXCEPT ![n] = ProxySet(@, key, value).instance]
  /\ UNCHANGED <<condVars, buildVars, runtime, tasks, stored>>

\* instances[n].save()
InstanceSaveCall(n) ==
  /\ n \in 1..Len(instances)
  /\ Start(Started("save", "", FALSE, FALSE, n, instances[n]._table, <<>>,
                   InstanceSave(instances[n], runtime)))
  /\ UNCHANGED <<condVars, buildVars, runtime, instances, stored>>

ModelTables == {posts, events, tags}

\* The attributes programs build and create instances from.
NewAttrs(table) ==
  IF table = events THEN { << Entry("kind", "view") >> }
  ELSE IF table = tags THEN { << Entry("id", "t1") >> }
  ELSE { << Entry("id", "u1"), Entry("title", "Hello") >>,
         << Entry("title", "Hello") >> }

UpdateAttrInputs == { <<>>, << Entry("title", "Bye") >> }

\* The attributes programs look rows up by: none, one, and two in an order
\* that is not the order of the table's columns.
FindByAttrs(table) ==
  IF table = events THEN { << Entry("kind", "view") >> }
  ELSE IF table = tags THEN { << Entry("id", "t1") >> }
  ELSE { <<>>,
         << Entry("title", "Hello") >>,
         << Entry("readTime", "5"), Entry("id", "u1") >> }

IdInputs == {"u1"}

\* The program has awaited every operation it started.
Awaited == Pending(tasks) = <<>>

\* A program that uses models and awaits each operation before it starts
\* the next; it may assign attributes while an operation is in flight.
ModelNext ==
  \/ BindRuntime
  \/ \E table \in ModelTables : \E attrs \in NewAttrs(table) :
       ModelBuild(table, attrs) /\ RoomForInstance
  \/ \E table \in ModelTables, id \in IdInputs :
       ModelFind(table, id) /\ RoomForInstance /\ Awaited
  \/ \E table \in ModelTables : \E attrs \in NewAttrs(table) :
       ModelCreate(table, attrs) /\ RoomForInstance /\ Awaited
  \/ \E table \in ModelTables : \E attrs \in FindByAttrs(table) :
       ModelFindBy(table, attrs) /\ RoomForInstance /\ Awaited
  \/ \E n \in 1..MaxInstances, attrs \in UpdateAttrInputs :
       InstanceUpdateCall(n, attrs) /\ Awaited
  \/ \E n \in 1..MaxInstances : InstanceDestroyCall(n) /\ Awaited
  \/ \E n \in 1..MaxInstances : InstanceReloadCall(n) /\ Awaited
  \/ \E n \in 1..MaxInstances : InstanceSaveCall(n) /\ Awaited
  \/ \E n \in 1..MaxInstances : InstanceAssign(n, "title", "Edited")
  \/ \E t \in 1..MaxTasks, rows \in RowsInputs : GatewayResolve(t, rows)
  \/ \E t \in 1..MaxTasks, e \in GatewayErrors : GatewayReject(t, e)

SpecModel == Init /\ [][ModelNext]_vars

----------------------------------------------------------------------------
(* Claims about condition trees *)

RECURSIVE LeafValues(_)
RECURSIVE LeafValuesAll(_)
\* The number of values the leaves of a tree carry.
LeafValues(c) == Len(c.values) + LeafValuesAll(c.conditions)
LeafValuesAll(cs) ==
  IF cs = <<>> THEN 0 ELSE LeafValues(Head(cs)) + LeafValuesAll(Tail(cs))

\* C2: for every condition tree and start index k, toSQL(k).nextIndex - k is
\* the number of leaf values of the tree, and so is the length of
\* toSQL(k).params.
C2_IndexAdvance ==
  compiled.some =>
    LET r == compiled.val
    IN /\ r.result.nextIndex - r.start = LeafValues(r.cond)
       /\ Len(r.result.params) = LeafValues(r.cond)

\* A nested tree with a two-value and a many-value leaf, compiled from 2.
C2_Witness ==
  /\ compiled.some
  /\ compiled.val.start = 2
  /\ compiled.val.cond.node \in {"and", "or", "not"}
  /\ \E i \in 1..Len(compiled.val.cond.conditions) :
       compiled.val.cond.conditions[i].node \in {"and", "or", "not"}
  /\ LeafValues(compiled.val.cond) >= 4

----------------------------------------------------------------------------
(* Claims about compiled statements *)

Slots == ProgramVars

\* The variables that hold a builder.
Live == {k \in Slots : slots[k] # NullRef}

\* The variables whose builder compiles without an error.
Compiling == {k \in Live : ToSQL(heap, slots[k]).error = ""}

IsPlaceholder(frag, limit) == \E n \in 1..limit : frag = Placeholder(n)

\* The placeholders of a statement, as they occur from left to right.
Placeholders(sql, limit) ==
  SelectSeq(sql, LAMBDA frag : IsPlaceholder(frag, limit))

RECURSIVE LeafValueSeq(_)
RECURSIVE LeafValueSeqAll(_)
\* The values of the leaves of a condition tree, from left to right.
LeafValueSeq(c) == c.values \o LeafValueSeqAll(c.conditions)
LeafValueSeqAll(cs) ==
  IF cs = <<>> THEN <<>> ELSE LeafValueSeq(Head(cs)) \o LeafValueSeqAll(Tail(cs))

OptionalLeafValues(where) == IF where.some THEN LeafValueSeq(where.val) ELSE <<>>

\* The values a statement binds, in the order its text mentions them: a
\* Select's join conditions and then its WHERE, an Insert's rows one after
\* the other under the keys of the first, an Update's assignments and then
\* its WHERE.
BoundValues(h, ref) ==
  LET b == h[ref] IN
  CASE b.class = "SelectQueryBuilder" ->
         LeafValueSeqAll([i \in 1..Len(Items(h, b._joins)) |-> Items(h, b._joins)[i].on])
         \o OptionalLeafValues(b._where)
    [] b.class = "InsertQueryBuilder" ->
         LET rows == Items(h, b._values)
         IN Flatten([i \in 1..Len(rows) |->
                       [j \in 1..Len(rows[1]) |-> ValueAt(rows[i], rows[1][j].k)]])
    [] b.class = "UpdateQueryBuilder" ->
         [j \in 1..Len(b._set) |-> b._set[j].v] \o OptionalLeafValues(b._where)
    [] b.class = "DeleteQueryBuilder" -> OptionalLeafValues(b._where)
    [] b.class = "QueryChain" -> LeafValueSeqAll(Items(h, b._conditions))

\* C1: in every statement toSQL() compiles, the placeholders of the text are
\* $1..$n from left to right, n the number of parameters, and the parameters
\* are the values the statement binds in the order the text mentions them
\* (so the WHERE of a Select numbers on after the joins, the WHERE of an
\* Update after the assignments).
C1_PlaceholdersMatchParams ==
  \A k \in Compiling :
    LET out == ToSQL(heap, slots[k])
    IN /\ Placeholders(out.sql, Len(out.sql) + Len(out.params))
            = [n \in 1..Len(out.params) |-> Placeholder(n)]
       /\ out.params = BoundValues(heap, slots[k])

\* A Select with two joins and a nested WHERE.
C1_Witness ==
  \E k \in Compiling :
    /\ heap[slots[k]].class = "SelectQueryBuilder"
    /\ Len(Items(heap, heap[slots[k]]._joins)) = 2
    /\ heap[slots[k]]._where.some
    /\ heap[slots[k]]._where.val.node = "and"
    /\ Len(ToSQL(heap, slots[k]).params) = 9

----------------------------------------------------------------------------
(* Claims about builders a program keeps *)

\* C3: a chain method call leaves every builder the program still holds as
\* it was: after any statement v_j = v_i.method(...), each variable other
\* than v_j holds a builder whose toSQL() returns the sql and params (or
\* throws the error) it did before the statement, whether that builder is
\* the receiver, a builder the receiver was derived from, or one derived from
\* the same prefix.
C3_BuildersImmutable ==
  [][\A k \in Slots :
       (k # last'.slot /\ slots[k] # NullRef)
         => /\ slots'[k] # NullRef
            /\ ToSQL(heap', slots'[k]) = ToSQL(heap, slots[k])]_vars

\* Two Select builders derived from one prefix, still sharing its arrays,
\* the later one with a join the other lacks.
C3_Witness ==
  /\ Live = Slots
  /\ \A k \in Slots : heap[slots[k]].class = "SelectQueryBuilder"
  /\ Compiling = Slots
  /\ last.slot = 2
  /\ heap[slots[1]]._orderBy = heap[slots[2]]._orderBy
  /\ heap[slots[1]]._groupBy = heap[slots[2]]._groupBy
  /\ Len(Items(heap, heap[slots[2]]._joins)) = 1
  /\ Len(Items(heap, heap[slots[1]]._joins)) = 0

----------------------------------------------------------------------------
(* Claims about the text of compiled statements *)

\* The builder db.select().from(posts).where(eq(posts.published, true)) with
\* the given ordering and limit.
IsScenario(h, ref, orderBy, limit) ==
  LET b == h[ref] IN
  /\ b.class = "SelectQueryBuilder"
  /\ b._select.star
  /\ b._from = Some(posts)
  /\ b._where = Some(eq(Col(posts, "published"), "true"))
  /\ Items(h, b._joins) = <<>>
  /\ Items(h, b._groupBy) = <<>>
  /\ Items(h, b._orderBy) = orderBy
  /\ b._limit = limit
  /\ b._offset = Undefined

ScenarioSQL ==
  "SELECT * FROM \"posts\" WHERE \"published\" = $1 ORDER BY \"title\" DESC LIMIT 10"

TitleDesc == << [column |-> Col(posts, "title"), direction |-> "desc"] >>

\* C4 as the specification states it: on the builder
\* db.select().from(posts).where(eq(posts.published, true)), the call
\* orderBy(posts.title, 'desc') returns a builder, and limit(10).toSQL() on
\* that builder returns the scenario's sql with params [true].
C4_StringDirection ==
  [][(/\ slots[1] # NullRef
      /\ IsScenario(heap, slots[1], <<>>, Undefined)
      /\ SelectOrderBy(1, 1, << ColumnArg(Col(posts, "title")), StringArg("desc") >>))
       => /\ last'.error = ""
          /\ LET r == Select_limit(heap', slots'[1], 10)
                 out == ToSQL(r.heap, r.ret)
             IN /\ out.error = ""
                /\ SqlText(out.sql) = ScenarioSQL
                /\ out.params = <<"true">>]_vars

\* C4, amended: with the ordering passed as desc(posts.title), the builder
\* db.select().from(posts).where(eq(posts.published, true))
\*   .orderBy(desc(posts.title)).limit(10)
\* compiles to the scenario's sql with params [true].
C4_DescHelper ==
  \A k \in Live :
    IsScenario(heap, slots[k], TitleDesc, Some(10))
      => LET out == ToSQL(heap, slots[k])
         IN /\ out.error = ""
            /\ SqlText(out.sql) = ScenarioSQL
            /\ out.params = <<"true">>

\* The scenario's builder, just returned by limit(10).
C4_Witness ==
  /\ last = [slot |-> 1, error |-> ""]
  /\ slots[1] # NullRef
  /\ IsScenario(heap, slots[1], TitleDesc, Some(10))

RECURSIVE Mentions(_, _)
RECURSIVE MentionsAny(_, _)
\* A condition tree has a leaf on the column.
Mentions(c, column) == c.column = column \/ MentionsAny(c.conditions, column)
MentionsAny(cs, column) ==
  cs # <<>> /\ (Mentions(Head(cs), column) \/ MentionsAny(Tail(cs), column))

OptionalMentions(where, column) == where.some /\ Mentions(where.val, column)

\* The builder's statement is one on the table and refers to the column the
\* table declares under the key: a Select selects it (alone or inside an aggregate), filters, joins,
\* groups or orders by it; an Insert's first row, or an Update's assignments,
\* have the key; a QueryChain filters or orders by it.
UsesColumn(h, ref, table, key) ==
  LET b == h[ref]
      column == Col(table, key)
      on == IF b.class = "SelectQueryBuilder" THEN b._from.val ELSE b._table
  IN
  /\ on = table
  /\ CASE b.class = "SelectQueryBuilder" ->
         \/ \E i \in 1..Len(b._select.entries) :
              b._select.entries[i].v.column = Some(column)
         \/ OptionalMentions(b._where, column)
         \/ \E i \in 1..Len(Items(h, b._joins)) :
              Mentions(Items(h, b._joins)[i].on, column)
         \/ column \in Range(Items(h, b._groupBy))
         \/ \E i \in 1..Len(Items(h, b._orderBy)) :
              Items(h, b._orderBy)[i].column = column
    [] b.class = "InsertQueryBuilder" ->
         HasKey(Items(h, b._values)[1], key)
    [] b.class = "UpdateQueryBuilder" ->
         HasKey(b._set, key) \/ OptionalMentions(b._where, column)
    [] b.class = "DeleteQueryBuilder" -> OptionalMentions(b._where, column)
    [] b.class = "QueryChain" ->
         \/ MentionsAny(Items(h, b._conditions), column)
         \/ \E i \in 1..Len(Items(h, b._orderByList)) :
              Items(h, b._orderByList)[i].column = key

\* The column of posts whose key and physical name differ.
LogicalKey == "readTime"
PhysicalName == Col(posts, LogicalKey).columnName

----------------------------------------------------------------------------
(* Claims about execute() *)

\* The errors toSQL() throws for a statement that lacks a required part.
StructuralErrors ==
  { "FROM clause is required", "No values to insert", "No columns to update" }

Executions == { t \in Range(tasks) : t.op = "execute" }

\* The gateway method an execute() is to use, by kind of builder.
ExpectedMethod(t) ==
  IF t.class = "SelectQueryBuilder" THEN "query"
  ELSE IF t.returning THEN "executeReturning"
  ELSE "execute"

\* C6: an execute() called with a gateway bound, on a builder whose statement
\* compiles, makes exactly one gateway call: query for a Select,
\* executeReturning for a write builder with returning() set, execute for a
\* write builder without it.  Once fulfilled it resolves to the rows the
\* gateway answered in the first two cases and to the empty array in the
\* third, whatever the gateway answered.
C6_OneGatewayCall ==
  \A t \in Executions :
    (t.bound /\ t.error \notin StructuralErrors)
      => /\ Len(t.calls) = 1
         /\ t.calls[1].method = ExpectedMethod(t)
         /\ t.calls[1].state = "fulfilled"
              => /\ t.status = "resolved"
                 /\ t.rows = IF ExpectedMethod(t) = "execute" THEN <<>>
                             ELSE t.calls[1].answer

\* An Insert without returning() whose gateway call was answered with a row
\* has resolved to the empty array.
C6_Witness ==
  \E t \in Executions :
    /\ t.class = "InsertQueryBuilder" /\ ~t.returning /\ t.bound
    /\ t.status = "resolved"
    /\ Len(t.calls) = 1 /\ t.calls[1].method = "execute"
    /\ t.calls[1].answer # <<>>
    /\ t.rows = <<>>

\* The statement of the builder lacks a part toSQL() requires.
LacksRequiredPart(h, ref) ==
  LET b == h[ref] IN
  CASE b.class = "SelectQueryBuilder" -> ~b._from.some
    [] b.class = "InsertQueryBuilder" -> Len(Items(h, b._values)) = 0
    [] b.class = "UpdateQueryBuilder" -> Len(b._set) = 0
    [] OTHER -> FALSE

RequiredPartError(class) ==
  CASE class = "SelectQueryBuilder" -> "FROM clause is required"
    [] class = "InsertQueryBuilder" -> "No values to insert"
    [] class = "UpdateQueryBuilder" -> "No columns to update"
    [] OTHER -> ""

LastTask(ts) == ts[Len(ts)]

\* C7: toSQL() of a Select without from(), of an Insert without rows and of
\* an Update with an empty assignment set fails with the error of its kind,
\* and an execute() of such a builder is rejected with that same error
\* without a gateway call, whether a gateway is bound or not.
C7_StructuralErrorsBeforeIO ==
  [][\A k \in Slots :
       (slots[k] # NullRef /\ LacksRequiredPart(heap, slots[k]))
         => /\ ToSQL(heap, slots[k]).error = RequiredPartError(heap[slots[k]].class)
            /\ BuilderExecute(k)
                 => /\ LastTask(tasks').status = "rejected"
                    /\ LastTask(tasks').error = ToSQL(heap, slots[k]).error
                    /\ LastTask(tasks').calls = <<>>]_vars

\* An execute() called with a gateway bound was rejected for the missing
\* part of its statement, and made no call.
C7_Witness ==
  \E t \in Executions :
    /\ t.bound
    /\ t.status = "rejected"
    /\ t.error = "No values to insert"
    /\ t.calls = <<>>

IsMissingRuntime(error) == error \in {MissingRuntime, MissingRuntimeHint}

\* C8: the gateway is looked up when the statement is executed.  An
\* execute(), all() or count() whose statement compiles is rejected with the
\* missing-runtime error and makes no gateway call when no gateway is bound
\* at the call; when one is bound at the call it makes its call, also on a
\* builder that was constructed before the gateway was bound.
C8_GatewayLookedUpAtExecution ==
  \A t \in Range(tasks) :
    (t.op \in {"execute", "all", "count"} /\ t.error \notin StructuralErrors)
      => IF t.bound
         THEN Len(t.calls) = 1 /\ ~IsMissingRuntime(t.error)
         ELSE /\ t.status = "rejected"
              /\ IsMissingRuntime(t.error)
              /\ t.calls = <<>>

\* A builder constructed while no gateway was bound was executed after one
\* was bound, and resolved with the gateway's rows.
C8_Witness ==
  \E t \in Executions :
    /\ ~t.made /\ t.bound
    /\ t.status = "resolved"
    /\ Len(t.calls) = 1 /\ t.calls[1].state = "fulfilled"
    /\ t.rows # <<>>

----------------------------------------------------------------------------
(* Claims about model instances *)

\* The operations that address a row by its primary key, with the word
\* their error names them by.
KeyedVerb(op) ==
  CASE op = "find" -> "find"
    [] op = "update" -> "update"
    [] op = "destroy" -> "delete"
    [] op = "reload" -> "reload"

KeyedOps == {"find", "update", "destroy", "reload"}

NoPrimaryKey(op) == "Cannot " \o KeyedVerb(op) \o ": no primary key defined"

HasPrimaryKeyColumn(table) ==
  \E i \in 1..Len(table.columns) : _getMeta(table.columns[i].v).isPrimaryKey

\* C9: on a table none of whose columns is a primary key, find(id) of the
\* model and update(), destroy() and reload() of an instance are rejected
\* with the no-primary-key error and make no gateway call, and the instance
\* keeps the attributes and the persisted flag the call found.
C9_NoPrimaryKey ==
  \A t \in Range(tasks) :
    (t.op \in KeyedOps /\ ~HasPrimaryKeyColumn(t.table))
      => /\ t.status = "rejected"
         /\ t.error = NoPrimaryKey(t.op)
         /\ t.calls = <<>>
         /\ IF t.op = "find" THEN t.inst = 0
            ELSE /\ instances[t.inst]._attributes = t.before._attributes
                 /\ instances[t.inst]._persisted = t.before._persisted

\* destroy() of a persisted instance of the table without primary key was
\* rejected while a gateway was bound.
C9_Witness ==
  \E t \in Range(tasks) :
    /\ t.op = "destroy" /\ t.table = events /\ t.bound
    /\ t.before._persisted
    /\ t.status = "rejected"
    /\ t.calls = <<>>
    /\ instances[t.inst] = t.before

\* The DELETE statement that addresses the row of an instance.
DeleteByPk(instance) ==
  LET pk == PrimaryKey(instance._table).val IN
  [sql |-> "DELETE FROM " \o Quoted(instance._table.tableName)
             \o " WHERE " \o Quoted(Col(instance._table, pk).columnName) \o " = $1",
   params |-> << ValueAt(instance._attributes, pk) >>]

\* C10: a destroy() of a persisted instance of a table with a primary key
\* sends exactly one statement, the DELETE whose WHERE compares the primary
\* key with the value the instance had at the call, and once the gateway has
\* fulfilled it destroy() has resolved and the instance's persisted flag is
\* false.
C10_DestroyClearsPersisted ==
  \A t \in Range(tasks) :
    (/\ t.op = "destroy" /\ t.bound
     /\ t.before._persisted
     /\ HasPrimaryKeyColumn(t.table))
      => /\ Len(t.calls) = 1
         /\ t.calls[1].method = "execute"
         /\ t.calls[1].sql = DeleteByPk(t.before).sql
         /\ t.calls[1].params = DeleteByPk(t.before).params
         /\ t.calls[1].state = "fulfilled"
              => /\ t.status = "resolved"
                 /\ ~instances[t.inst]._persisted

----------------------------------------------------------------------------
(* Claims about the statements and outcomes of instance methods *)

CommaList(strs) == Concat(JoinParts([j \in 1..Len(strs) |-> <<strs[j]>>], ", "))

Values(obj) == [j \in 1..Len(obj) |-> obj[j].v]

\* The quoted physical name of the column a logical key names.
QuotedColumn(table, key) == Quoted(Col(table, key).columnName)

PkOf(table) == PrimaryKey(table).val

\* INSERT INTO "t" ("c1", ...) VALUES ($1, ...) RETURNING *
InsertReturningText(table, attrs) ==
  "INSERT INTO " \o Quoted(table.tableName) \o " ("
    \o CommaList([j \in 1..Len(attrs) |-> QuotedColumn(table, attrs[j].k)])
    \o ") VALUES ("
    \o CommaList([j \in 1..Len(attrs) |-> Placeholder(j)])
    \o ") RETURNING *"

\* UPDATE "t" SET "c1" = $1, ... WHERE "pk" = $n RETURNING *
UpdateByPkText(table, attrs) ==
  "UPDATE " \o Quoted(table.tableName) \o " SET "
    \o CommaList([j \in 1..Len(attrs) |->
                    QuotedColumn(table, attrs[j].k) \o " = " \o Placeholder(j)])
    \o " WHERE " \o QuotedColumn(table, PkOf(table)) \o " = "
    \o Placeholder(Len(attrs) + 1) \o " RETURNING *"

\* SELECT * FROM "t" WHERE "pk" = $1
SelectByPkText(table) ==
  "SELECT * FROM " \o Quoted(table.tableName)
    \o " WHERE " \o QuotedColumn(table, PkOf(table)) \o " = $1"

TaskIds == 1..MaxTasks

\* The gateway fulfils with rows the call that operation t, one of the
\* given kind called with a gateway bound, was awaiting.
Fulfils(t, rows, op) ==
  /\ GatewayResolve(t, rows)
  /\ tasks[t].op = op
  /\ tasks[t].bound

\* C11: a save() of an unpersisted instance has sent exactly one statement,
\* the INSERT ... RETURNING * of the instance's attributes, and when the
\* gateway answers it with at least one row save() resolves, the instance
\* persisted and its attributes the first row answered.
C11_SaveInsertsAndPersists ==
  [][\A t \in TaskIds, rows \in RowsInputs :
       (Fulfils(t, rows, "save") /\ ~tasks[t].before._persisted)
         => /\ Len(tasks'[t].calls) = 1
            /\ tasks'[t].calls[1].method = "executeReturning"
            /\ tasks'[t].calls[1].sql
                 = InsertReturningText(tasks[t].table, tasks[t].before._attributes)
            /\ tasks'[t].calls[1].params = Values(tasks[t].before._attributes)
            /\ rows # <<>>
                 => /\ tasks'[t].status = "resolved"
                    /\ instances'[tasks[t].inst]._persisted
                    /\ instances'[tasks[t].inst]._attributes = rows[1]]_vars

\* The value of the primary key the instance had when the operation began.
PkValueBefore(task) == ValueAt(task.before._attributes, PkOf(task.table))

\* C12: an update(attrs) of an instance of a table with a primary key has
\* sent exactly one statement, UPDATE ... SET attrs WHERE pk = (the
\* instance's primary-key value) RETURNING *, and when the gateway answers it
\* with at least one row update() resolves, the instance's attributes the
\* first row answered.
C12_UpdateReplacesAttributes ==
  [][\A t \in TaskIds, rows \in RowsInputs :
       Fulfils(t, rows, "update")
         => /\ Len(tasks'[t].calls) = 1
            /\ tasks'[t].calls[1].method = "executeReturning"
            /\ tasks'[t].calls[1].sql = UpdateByPkText(tasks[t].table, tasks[t].args)
            /\ tasks'[t].calls[1].params
                 = Values(tasks[t].args) \o << PkValueBefore(tasks[t]) >>
            /\ rows # <<>>
                 => /\ tasks'[t].status = "resolved"
                    /\ instances'[tasks[t].inst]._attributes = rows[1]]_vars

\* C13: a reload() of an instance of a table with a primary key has sent one
\* statement, the SELECT whose WHERE compares the primary key with the
\* instance's value; answered with no row it is rejected with 'Record not
\* found' and the instance is as it was, and answered with rows it resolves,
\* the instance's attributes the first row answered.
C13_ReloadReplacesAttributes ==
  [][\A t \in TaskIds, rows \in RowsInputs :
       Fulfils(t, rows, "reload")
         => /\ Len(tasks'[t].calls) = 1
            /\ tasks'[t].calls[1].method = "query"
            /\ tasks'[t].calls[1].sql = SelectByPkText(tasks[t].table)
            /\ tasks'[t].calls[1].params = << PkValueBefore(tasks[t]) >>
            /\ IF rows = <<>>
               THEN /\ tasks'[t].status = "rejected"
                    /\ tasks'[t].error = "Record not found"
                    /\ instances' = instances
               ELSE /\ tasks'[t].status = "resolved"
                    /\ instances'[tasks[t].inst]._attributes = rows[1]]_vars

\* The attributes of the instance other than the primary key of its table.
NonKeyAttributes(instance) ==
  SelectSeq(instance._attributes, LAMBDA e : e.k # PkOf(instance._table))

\* instances[n], persisted and of a table with a primary key, is saved with
\* a gateway bound.
SavesPersisted(n) ==
  /\ InstanceSaveCall(n)
  /\ runtime
  /\ instances[n]._persisted
  /\ HasPrimaryKeyColumn(instances[n]._table)

\* The one call of the task is the UPDATE that assigns the instance's
\* attributes other than the primary key, WHERE the primary key is the
\* instance's value.
UpdatesNonKeyAttributes(task, instance) ==
  /\ Len(task.calls) = 1
  /\ task.calls[1].method = "executeReturning"
  /\ task.calls[1].sql = UpdateByPkText(instance._table, NonKeyAttributes(instance))
  /\ task.calls[1].params
       = Values(NonKeyAttributes(instance))
           \o << ValueAt(instance._attributes, PkOf(instance._table)) >>

\* C14, as stated: every save() of a persisted instance of a table with a
\* primary key sends exactly one UPDATE, whose SET assigns every current
\* attribute except the primary key and whose WHERE is pk = current value.
C14_SaveAlwaysUpdates ==
  [][\A n \in 1..MaxInstances :
       SavesPersisted(n) => UpdatesNonKeyAttributes(LastTask(tasks'), instances[n])]_vars

\* C14, amended: the save() sends that UPDATE when the instance has an
\* attribute besides the primary key; when it has none, save() is rejected
\* with 'No columns to update' and no statement is sent.
C14_SaveUpdatesNonKeyAttributes ==
  [][\A n \in 1..MaxInstances :
       SavesPersisted(n)
         => IF NonKeyAttributes(instances[n]) # <<>>
            THEN UpdatesNonKeyAttributes(LastTask(tasks'), instances[n])
            ELSE /\ LastTask(tasks').status = "rejected"
                 /\ LastTask(tasks').error = "No columns to update"
                 /\ LastTask(tasks').calls = <<>>]_vars

\* A persisted instance whose title the program had assigned was saved: the
\* UPDATE carries the assigned title and not the primary key.
C14_Witness ==
  \E t \in Range(tasks) :
    /\ t.op = "save" /\ t.bound /\ t.before._persisted
    /\ HasKey(t.before._attributes, "id")
    /\ Len(t.calls) = 1
    /\ t.calls[1].params = << "Edited", ValueAt(t.before._attributes, "id") >>

----------------------------------------------------------------------------
(* A gateway that stores the rows it is asked to insert and answers from    *)
(* what it stores.  It recognises a statement by its text: the INSERT of an *)
(* attribute object and the SELECT by primary key.                          *)

\* The row as the database stores it: a primary key the INSERT does not
\* carry is generated.
StoredRow(table, attrs, n) ==
  IF HasKey(attrs, PkOf(table)) THEN attrs
  ELSE << Entry(PkOf(table), "g" \o ToString(n)) >> \o attrs

\* The stored rows of the table whose primary key has the value.
RowsOf(table, value) ==
  LET hits == SelectSeq(stored, LAMBDA r : /\ r.table = table.tableName
                                           /\ ValueAt(r.row, PkOf(table)) = value)
  IN [j \in 1..Len(hits) |-> hits[j].row]

\* The call operation t awaits is fulfilled with rows, and the method runs on.
Settle(t, rows) ==
  LET answered == [tasks[t] EXCEPT !.calls = LastSettled(@, "fulfilled", rows)]
      c == Continue(answered, rows, instances)
  IN /\ tasks' = [tasks EXCEPT ![t] = c.task]
     /\ instances' = c.instances

\* The storing gateway settles the call operation t awaits.
StoreResolve(t) ==
  /\ t \in 1..Len(tasks)
  /\ tasks[t].status = "awaiting"
  /\ LET task == tasks[t]
         call == task.calls[Len(task.calls)]
         row == StoredRow(task.table, task.args, Len(stored) + 1)
     IN \/ /\ call.method = "executeReturning"
           /\ call.sql = InsertReturningText(task.table, task.args)
           /\ IF RowsOf(task.table, ValueAt(row, PkOf(task.table))) # <<>>
              THEN /\ tasks' = [tasks EXCEPT ![t] =
                                  Rejected([task EXCEPT !.calls =
                                              LastSettled(@, "rejected", <<>>)],
                                           "duplicate key", instances).task]
                   /\ UNCHANGED <<instances, stored>>
              ELSE /\ stored' = Append(stored, [table |-> task.table.tableName,
                                                row |-> row])
                   /\ Settle(t, <<row>>)
        \/ /\ call.method = "query"
           /\ call.sql = SelectByPkText(task.table)
           /\ Settle(t, RowsOf(task.table, call.params[1]))
           /\ UNCHANGED stored
  /\ UNCHANGED <<condVars, buildVars, runtime>>

\* Instances a round-trip program holds at one time.
MaxStored == 2

StoreRoom ==
  Len(instances)
    + Len(SelectSeq(tasks, LAMBDA t : t.status = "awaiting"))
    < MaxStored

StoreTables == {posts, tags}
StoreIds == {"u1", "g1", "t1", "none"}

\* Programs that create rows and look rows up by primary key.
StoreNext ==
  \/ BindRuntime
  \/ \E table \in StoreTables : \E attrs \in NewAttrs(table) :
       ModelCreate(table, attrs) /\ StoreRoom /\ CanStart
  \/ \E table \in StoreTables, id \in StoreIds :
       ModelFind(table, id) /\ StoreRoom /\ CanStart
  \/ \E t \in TaskIds : StoreResolve(t)
  \/ \E t \in TaskIds, e \in GatewayErrors : GatewayReject(t, e)

SpecStore == Init /\ [][StoreNext]_vars

\* C15: against the storing gateway, find(id) with id the primary-key value
\* of an instance that create returned resolves to an instance of its own
\* whose attributes are those of the created one, that is, the row create
\* returned.
C15_CreateFindRoundTrip ==
  [][\A t \in TaskIds :
       (StoreResolve(t) /\ tasks[t].op = "find")
         => \A i \in 1..Len(instances) :
              (/\ instances[i]._table = tasks[t].table
               /\ ValueAt(instances[i]._attributes, PkOf(tasks[t].table))
                    = tasks[t].args[1].v)
                => /\ tasks'[t].status = "resolved"
                   /\ tasks'[t].inst = Len(instances) + 1
                   /\ instances'[tasks'[t].inst]._attributes
                        = instances[i]._attributes
                   /\ instances'[tasks'[t].inst]._persisted]_vars

\* A row was created without a primary key, the gateway generated one, and
\* find with the generated key returned the row create had returned.
C15_Witness ==
  \E t \in Range(tasks) :
    /\ t.op = "find" /\ t.status = "resolved" /\ t.inst = 2
    /\ t.args[1].v = "g1"
    /\ Len(instances) = 2
    /\ ValueAt(instances[1]._attributes, "id") = "g1"
    /\ instances[2]._attributes = instances[1]._attributes

----------------------------------------------------------------------------
(* Claims about the methods of a model *)

\* The operation has resolved to an instance the program did not hold
\* before: persisted, its attributes the row.
HydratedFrom(t, row) ==
  /\ tasks'[t].status = "resolved"
  /\ tasks'[t].inst = Len(instances) + 1
  /\ instances' = Append(instances, instances'[Len(instances) + 1])
  /\ instances'[Len(instances) + 1]._table = tasks[t].table
  /\ instances'[Len(instances) + 1]._attributes = row
  /\ instances'[Len(instances) + 1]._persisted

\* C16: a create(attrs) has sent exactly one statement, the INSERT of attrs
\* with RETURNING *; answered with rows it resolves to a persisted instance
\* whose attributes are the first row, and answered with no row it is
\* rejected with 'Insert failed'.
C16_CreateInsertsAndHydrates ==
  [][\A t \in TaskIds, rows \in RowsInputs :
       Fulfils(t, rows, "create")
         => /\ Len(tasks'[t].calls) = 1
            /\ tasks'[t].calls[1].method = "executeReturning"
            /\ tasks'[t].calls[1].sql = InsertReturningText(tasks[t].table, tasks[t].args)
            /\ tasks'[t].calls[1].params = Values(tasks[t].args)
            /\ IF rows = <<>>
               THEN /\ tasks'[t].status = "rejected"
                    /\ tasks'[t].error = "Insert failed"
                    /\ instances' = instances
               ELSE HydratedFrom(t, rows[1])]_vars

\* A create was answered with a row that differs from the attributes sent,
\* and the instance has the row's attributes.
C16_Witness ==
  \E t \in Range(tasks) :
    /\ t.op = "create" /\ t.status = "resolved"
    /\ t.args = << Entry("title", "Hello") >>
    /\ t.inst = 1
    /\ instances[1]._attributes = StoredPost
    /\ instances[1]._persisted

\* C17: a find(id) on a table with a primary key has sent one statement,
\* the SELECT whose WHERE compares the primary key with id; answered with no
\* row it resolves to null, and answered with rows it resolves to a
\* persisted instance whose attributes are the first row.
C17_FindHydratesOrNull ==
  [][\A t \in TaskIds, rows \in RowsInputs :
       Fulfils(t, rows, "find")
         => /\ Len(tasks'[t].calls) = 1
            /\ tasks'[t].calls[1].method = "query"
            /\ tasks'[t].calls[1].sql = SelectByPkText(tasks[t].table)
            /\ tasks'[t].calls[1].params = << tasks[t].args[1].v >>
            /\ IF rows = <<>>
               THEN /\ tasks'[t].status = "resolved"
                    /\ tasks'[t].scalar = "null"
                    /\ tasks'[t].inst = 0
                    /\ instances' = instances
               ELSE HydratedFrom(t, rows[1])]_vars

\* A find was answered with no row and resolved to null.
C17_Witness ==
  \E t \in Range(tasks) :
    /\ t.op = "find" /\ t.table = posts /\ t.bound
    /\ Len(t.calls) = 1 /\ t.calls[1].state = "fulfilled"
    /\ t.calls[1].answer = <<>>
    /\ t.status = "resolved" /\ t.scalar = "null"

\* "c" = $n for the j-th attribute, numbered from 1.
Equality(table, attrs, j) ==
  QuotedColumn(table, attrs[j].k) \o " = " \o Placeholder(j)

RECURSIVE Conjoined(_, _, _)
\* The equalities of the attributes from the j-th on, joined by AND.
Conjoined(table, attrs, j) ==
  IF j = Len(attrs) THEN Equality(table, attrs, j)
  ELSE Equality(table, attrs, j) \o " AND " \o Conjoined(table, attrs, j + 1)

\* The query of findBy: no WHERE for no attribute, the equality for one,
\* the parenthesised conjunction for several; one row is asked for.
FindByText(table, attrs) ==
  "SELECT * FROM " \o Quoted(table.tableName)
    \o (CASE Len(attrs) = 0 -> ""
          [] Len(attrs) = 1 -> " WHERE " \o Equality(table, attrs, 1)
          [] OTHER -> " WHERE (" \o Conjoined(table, attrs, 1) \o ")")
    \o " LIMIT 1"

----------------------------------------------------------------------------
(* Failures of the gateway *)

\* A program that uses models and also executes a DELETE it builds itself.
FailNext ==
  \/ ModelNext
  \/ DbDelete(1, ShareTable)
  \/ DeleteReturning(1, 1)
  \/ BuilderExecute(1) /\ Awaited

SpecFail == Init /\ [][FailNext]_vars

InstanceOps == {"update", "destroy", "reload", "save"}

PassedThroughOps == {"execute", "find", "create"} \cup InstanceOps

\* C19: when the gateway rejects with an error the one call an execute() of
\* a builder, or a find, create, update, destroy, reload or save, has made,
\* the operation is rejected with that error, it has made no other call and
\* makes none, and no instance changes: the instance of an instance method
\* has the attributes and the persisted flag it had.
C19_GatewayFailurePassesThrough ==
  [][\A t \in TaskIds, e \in GatewayErrors :
       (GatewayReject(t, e) /\ tasks[t].op \in PassedThroughOps)
         => /\ tasks'[t].status = "rejected"
            /\ tasks'[t].error = e
            /\ Len(tasks[t].calls) = 1
            /\ Len(tasks'[t].calls) = 1
            /\ tasks'[t].calls[1].state = "rejected"
            /\ instances' = instances
            /\ tasks[t].op \in InstanceOps
                 => /\ instances'[tasks[t].inst]._persisted
                         = instances[tasks[t].inst]._persisted
                    /\ instances'[tasks[t].inst]._attributes
                         = instances[tasks[t].inst]._attributes]_vars

\* A save() of a persisted instance was rejected with the gateway's error,
\* after one call, and the instance is as it was.
C19_Witness ==
  \E t \in Range(tasks) :
    /\ t.op = "save" /\ t.before._persisted
    /\ t.status = "rejected"
    /\ t.error = "unique constraint violated"
    /\ Len(t.calls) = 1 /\ t.calls[1].reason = t.error
    /\ instances[t.inst] = t.before

----------------------------------------------------------------------------
(* Programs with two variables that hold query chains: a statement calls a  *)
(* chain method on the chain a variable holds and assigns the result to     *)
(* that variable or to a later one.                                         *)

ChainAttrInputs ==
  { << Entry("published", "true") >>,
    << Entry("title", "Hello"), Entry("readTime", "5") >> }

\* A chain of these programs holds at most MaxClauses + 1 clauses.
Fits ==
  \A k \in Slots :
    slots[k] # NullRef => Clauses(heap, slots[k]) <= MaxClauses + 1

ChainNext ==
  \/ BindRuntime
  \/ \E j \in ProgramVars : NewChain(j, ShareTable)
  \/ \E j \in ProgramVars : \E i \in 1..j : \E attrs \in ChainAttrInputs :
       ChainWhere(i, j, attrs) /\ Fits'
  \/ \E j \in ProgramVars : \E i \in 1..j :
       ChainOrderBy(i, j, "title", "desc") /\ Fits'
  \/ \E j \in ProgramVars : \E i \in 1..j, n \in LimitInputs :
       ChainLimit(i, j, n) /\ Fits'
  \/ \E j \in ProgramVars : \E i \in 1..j, n \in OffsetInputs :
       ChainOffset(i, j, n) /\ Fits'

SpecChain == Init /\ [][ChainNext]_vars

\* What a chain holds.
ChainState(h, ref) ==
  [conditions |-> Items(h, h[ref]._conditions),
   orderings |-> Items(h, h[ref]._orderByList),
   limit |-> h[ref]._limitValue,
   offset |-> h[ref]._offsetValue]

\* One equality per attribute, in the order of the attributes.
Equalities(table, attrs) ==
  [n \in 1..Len(attrs) |-> eq(Col(table, attrs[n].k), attrs[n].v)]

\* The chain variable j holds after the step is the chain variable i held
\* before it, changed as given; every other variable's chain compiles to
\* what it compiled to, and the gateway is left alone.
Extends(i, j, extended) ==
  /\ last'.slot = j /\ last'.error = ""
  /\ heap'[slots'[j]].class = "QueryChain"
  /\ ChainState(heap', slots'[j]) = extended
  /\ \A k \in Slots :
       (k # j /\ slots[k] # NullRef)
         => /\ slots'[k] # NullRef
            /\ ChainState(heap', slots'[k]) = ChainState(heap, slots[k])
            /\ ToSQL(heap', slots'[k]) = ToSQL(heap, slots[k])
  /\ runtime' = runtime /\ tasks' = tasks

\* C20: where, orderBy, limit and offset of a QueryChain return a new chain
\* that holds what the receiver holds with the conditions, the ordering or
\* the value added after it; a chain kept in another variable, the receiver
\* among them, holds and compiles to the same before and after, whatever is
\* called on the chains derived from it; no gateway call is made.
C20_ChainCopyAndExtend ==
  [][\A j \in ProgramVars : \A i \in 1..j :
       (last'.slot = j /\ Holds(i, "QueryChain")) =>
       LET receiver == ChainState(heap, slots[i]) IN
       /\ \A attrs \in ChainAttrInputs :
            ChainWhere(i, j, attrs)
              => Extends(i, j, [receiver EXCEPT !.conditions =
                                  @ \o Equalities(ShareTable, attrs)])
       /\ ChainOrderBy(i, j, "title", "desc")
            => Extends(i, j, [receiver EXCEPT !.orderings =
                                Append(@, [column |-> "title", direction |-> "desc"])])
       /\ \A n \in LimitInputs :
            ChainLimit(i, j, n) => Extends(i, j, [receiver EXCEPT !.limit = Some(n)])
       /\ \A n \in OffsetInputs :
            ChainOffset(i, j, n) => Extends(i, j, [receiver EXCEPT !.offset = Some(n)])]_vars

\* The second variable holds a chain derived from the chain of the first by
\* a where of two attributes; the first still has its one condition.
C20_Witness ==
  /\ Live = Slots
  /\ heap[slots[1]].class = "QueryChain" /\ heap[slots[2]].class = "QueryChain"
  /\ last.slot = 2
  /\ Len(ChainState(heap, slots[1]).conditions) = 1
  /\ Len(ChainState(heap, slots[2]).conditions) = 3
  /\ SubSeq(ChainState(heap, slots[2]).conditions, 1, 1)
       = ChainState(heap, slots[1]).conditions
  /\ ToSQL(heap, slots[1]) # ToSQL(heap, slots[2])

----------------------------------------------------------------------------
(* Field-style access to model instances: programs that build an instance   *)
(* and assign to its fields.                                                *)

FieldTables == {posts, drafts}

FieldAttrs(table) ==
  IF table = drafts
  THEN { << Entry("id", "d1"), Entry("title", "Hello"), Entry("save", "false") >> }
  ELSE { << Entry("id", "u1"), Entry("title", "Hello") >> }

FieldKeys == {"id", "title", "save", "nosuch"}
FieldValues == {"Edited", "true", "d2", "null"}

FieldNext ==
  \/ \E table \in FieldTables : \E attrs \in FieldAttrs(table) :
       ModelBuild(table, attrs) /\ RoomForInstance
  \/ \E n \in 1..MaxInstances, key \in FieldKeys, value \in FieldValues :
       InstanceAssign(n, key, value)

SpecField == Init /\ [][FieldNext]_vars

\* The attributes of an instance that are columns of its table.
ColumnAttributes(instance) ==
  { k \in FieldKeys :
      HasKey(instance._table.columns, k) /\ HasKey(instance._attributes, k) }

\* C21: for every column name k among an instance's attributes, instance[k]
\* reads attributes[k]; after instance[k] = v, instance[k], get(k) and
\* toJSON()[k] all read v and every other attribute is what it was.
C21_FieldAccessThroughAttributes ==
  /\ [](\A n \in 1..Len(instances) : \A k \in ColumnAttributes(instances[n]) :
         ProxyGet(instances[n], k) = Lookup(instances[n]._attributes, k))
  /\ [][\A n \in 1..Len(instances) : \A k \in ColumnAttributes(instances[n]) :
          \A v \in FieldValues :
            InstanceAssign(n, k, v)
              => /\ ProxyGet(instances'[n], k) = v
                 /\ InstanceGet(instances'[n], k) = v
                 /\ ValueAt(InstanceToJSON(instances'[n]), k) = v
                 /\ \A o \in ColumnAttributes(instances[n]) \ {k} :
                      InstanceGet(instances'[n], o) = InstanceGet(instances[n], o)]_vars

----------------------------------------------------------------------------
(* Programs that declare a schema.  A column definition and a table are     *)
(* objects with an identity; a statement is                                 *)
(*   v_j = text(name)      v_j = v_i.modifier(arguments)                    *)
(*   v_j = table(name, { k1: v_1, k2: v_2 })                                *)
(* over the program's variables.                                            *)

ColumnObject(def) == [class |-> "ColumnBuilder", def |-> def]

\* new Table(name, columns): columns holds the definitions the caller
\* passed, under their logical names.
TableObject(tableName, columns) ==
  [class |-> "Table", tableName |-> tableName, columns |-> columns]

\* A modifier that changes the receiver and returns it.
NewColumnBuilder_InPlace(h, this, def) ==
  IF this = NullRef THEN Returned(Allocate(h, ColumnObject(def)), FreshRef(h))
  ELSE Returned([h EXCEPT ![this].def = def], this)

\* new ColumnBuilder(...) in a constructor function (this is no object) or
\* in a modifier of the definition this.
NewColumnBuilder(h, this, def) ==
  Returned(Allocate(h, ColumnObject(def)), FreshRef(h))

Column_notNull(h, this) == NewColumnBuilder(h, this, notNull(h[this].def))
Column_default(h, this, value) ==
  NewColumnBuilder(h, this, default(h[this].def, value))
Column_defaultNow(h, this) == NewColumnBuilder(h, this, defaultNow(h[this].def))
Column_defaultRandom(h, this) ==
  NewColumnBuilder(h, this, defaultRandom(h[this].def))
Column_primaryKey(h, this) == NewColumnBuilder(h, this, primaryKey(h[this].def))
Column_references(h, this, ref) ==
  NewColumnBuilder(h, this, references(h[this].def, ref))

\* this._getMeta()
Column_getMeta(h, this) == _getMeta(h[this].def)

\* table(name, columns): the Proxy has the identity of its target.
Schema_table(h, name, columns) ==
  Returned(Allocate(h, TableObject(name, columns)), FreshRef(h))

\* What reading a property yields: a reference to a column definition, some
\* other value (written as its literal), or undefined.
ColumnValue(ref) == [kind |-> "column", ref |-> ref, text |-> ""]
PlainValue(literal) == [kind |-> "value", ref |-> NullRef, text |-> literal]
UndefinedValue == [kind |-> "undefined", ref |-> NullRef, text |-> ""]

\* The properties a Table object has or inherits whatever the build.
TableMembers == {"tableName", "columns", "getColumn", "_getColumnsMeta"}

\* The fields the class declares without a value: own properties that hold
\* undefined when class fields are emitted with define semantics, absent
\* otherwise.
TableDeclaredFields == {"_name", "_columns", "$inferSelect", "$inferInsert"}

\* prop in target, for the target of the table Proxy.
InTable(prop, defineFields) ==
  \/ prop \in TableMembers \cup ObjectPrototype
  \/ defineFields /\ prop \in TableDeclaredFields

\* A get trap that looks into the columns first.
TableGet_ColumnsFirst(h, ref, prop, defineFields) ==
  IF HasKey(h[ref].columns, prop) THEN ColumnValue(Lookup(h[ref].columns, prop))
  ELSE IF prop = "tableName" THEN PlainValue(h[ref].tableName)
  ELSE IF InTable(prop, defineFields) THEN PlainValue("[object]")
  ELSE UndefinedValue

\* table[prop]: the get trap of the table Proxy.
TableGet(h, ref, prop, defineFields) ==
  IF InTable(prop, defineFields)
  THEN CASE prop = "tableName" -> PlainValue(h[ref].tableName)
         [] prop \in TableDeclaredFields -> UndefinedValue
         [] prop = "columns" -> PlainValue("[object Object]")
         [] OTHER -> PlainValue("function " \o prop)
  ELSE IF HasKey(h[ref].columns, prop)
  THEN ColumnValue(Lookup(h[ref].columns, prop))
  ELSE UndefinedValue

\* table.columns[prop], for a logical name of the table
TableColumn(h, ref, prop) == ColumnValue(Lookup(h[ref].columns, prop))

\* v_j = text(name), v_j = uuid(name)
DeclareColumn(j, def) == Assign(j, NewColumnBuilder(heap, NullRef, def))

ColumnNotNull(i, j) ==
  /\ Holds(i, "ColumnBuilder")
  /\ Assign(j, Column_notNull(heap, slots[i]))
ColumnDefault(i, j, value) ==
  /\ Holds(i, "ColumnBuilder")
  /\ Assign(j, Column_default(heap, slots[i], value))
ColumnDefaultNow(i, j) ==
  /\ Holds(i, "ColumnBuilder")
  /\ Assign(j, Column_defaultNow(heap, slots[i]))
ColumnDefaultRandom(i, j) ==
  /\ Holds(i, "ColumnBuilder")
  /\ Assign(j, Column_defaultRandom(heap, slots[i]))
ColumnPrimaryKey(i, j) ==
  /\ Holds(i, "ColumnBuilder")
  /\ Assign(j, Column_primaryKey(heap, slots[i]))
ColumnReferences(i, j, ref) ==
  /\ Holds(i, "ColumnBuilder")
  /\ Assign(j, Column_references(heap, slots[i], ref))

\* v_j = table(name, { k1: v_1 }) and v_j = table(name, { k1: v_1, k2: v_2 })
DeclareTable(j, name, keys) ==
  /\ \A n \in 1..Len(keys) : Holds(n, "ColumnBuilder")
  /\ Assign(j, Schema_table(heap, name, [n \in 1..Len(keys) |-> Entry(keys[n], slots[n])]))

ColumnInputs == {uuid("id"), text("title")}
DefaultInputs == {"draft"}
ReferenceInputs == {"users.id"}

\* The logical names programs give columns: two that are names of nothing
\* else and two that are also properties of every table object.
LogicalNames == {"id", "title", "tableName", "columns"}
TableKeyInputs ==
  { <<k>> : k \in LogicalNames }
    \cup { <<k1, k2>> : k1 \in {"id", "tableName"}, k2 \in {"title", "columns"} }

\* The variables that hold a table.
TableVars == {k \in Slots : slots[k] # NullRef /\ heap[slots[k]].class = "Table"}

\* The number of modifiers a definition shows.
Modifiers(def) ==
  Count(def._notNullFlag) + Count(def._hasDefaultFlag)
  + Count(def._isPrimaryKeyFlag) + Count(def._references # NoReference)

\* The program may call a modifier on what variable i holds: it has declared
\* no table yet, and the definition shows fewer than MaxChain modifiers.
MayModify(i) ==
  /\ TableVars = {}
  /\ Holds(i, "ColumnBuilder") /\ Modifiers(heap[slots[i]].def) < MaxChain

\* A program that declares column definitions and then tables.
SchemaNext ==
  \/ \E j \in ProgramVars, def \in ColumnInputs :
       DeclareColumn(j, def) /\ TableVars = {}
  \/ \E j \in ProgramVars : \E i \in 1..j : ColumnNotNull(i, j) /\ MayModify(i)
  \/ \E j \in ProgramVars : \E i \in 1..j, value \in DefaultInputs :
       ColumnDefault(i, j, value) /\ MayModify(i)
  \/ \E j \in ProgramVars : \E i \in 1..j : ColumnDefaultNow(i, j) /\ MayModify(i)
  \/ \E j \in ProgramVars : \E i \in 1..j :
       ColumnDefaultRandom(i, j) /\ MayModify(i)
  \/ \E j \in ProgramVars : \E i \in 1..j : ColumnPrimaryKey(i, j) /\ MayModify(i)
  \/ \E j \in ProgramVars : \E i \in 1..j, ref \in ReferenceInputs :
       ColumnReferences(i, j, ref) /\ MayModify(i)
  \/ \E j \in ProgramVars, keys \in TableKeyInputs : DeclareTable(j, "audit", keys)

SpecSchema == Init /\ [][SchemaNext]_vars

\* C22: for a table built by table(name, columns) and every logical column
\* name n of columns, table[n] is the column definition table.columns[n].
C22_DirectAccessIsStructuredAccess ==
  \A k \in TableVars : \A defineFields \in BOOLEAN :
    \A n \in Range(Keys(heap[slots[k]].columns)) :
      TableGet(heap, slots[k], n, defineFields) = TableColumn(heap, slots[k], n)

MetaFields ==
  {"type", "name", "notNull", "hasDefault", "isPrimaryKey", "defaultValue",
   "references"}

\* The step assigned variable j a definition other than the receiver's,
\* whose metadata is the receiver's except in the fields named; the
\* definition every other variable holds, the receiver's among them, has
\* the metadata it had.
Derived(i, j, fields) ==
  /\ last'.slot = j
  /\ heap'[slots'[j]].class = "ColumnBuilder"
  /\ \A f \in MetaFields \ fields :
       Column_getMeta(heap', slots'[j])[f] = Column_getMeta(heap, slots[i])[f]
  /\ \A k \in Slots \ {j} :
       Holds(k, "ColumnBuilder")
         => /\ slots'[k] # NullRef /\ slots'[k] # slots'[j]
            /\ Column_getMeta(heap', slots'[k]) = Column_getMeta(heap, slots[k])

\* C23: each of notNull, default, defaultNow, defaultRandom, primaryKey and
\* references returns a new definition and leaves the metadata of the
\* receiver as it was; the result has the receiver's metadata except for
\* what the modifier sets (default and its two variants set the default
\* value and hasDefault), and primaryKey() sets isPrimaryKey and notNull.
C23_ModifiersReturnNewDefinitions ==
  [][\A j \in ProgramVars : \A i \in 1..j :
       (last'.slot = j /\ Holds(i, "ColumnBuilder")) =>
       LET result == Column_getMeta(heap', slots'[j]) IN
       /\ ColumnNotNull(i, j) => Derived(i, j, {"notNull"}) /\ result.notNull
       /\ \A value \in DefaultInputs :
            ColumnDefault(i, j, value)
              => /\ Derived(i, j, {"defaultValue", "hasDefault"})
                 /\ result.defaultValue = value /\ result.hasDefault
       /\ ColumnDefaultNow(i, j)
            => /\ Derived(i, j, {"defaultValue", "hasDefault"})
               /\ result.defaultValue = "{__defaultNow: true}" /\ result.hasDefault
       /\ ColumnDefaultRandom(i, j)
            => /\ Derived(i, j, {"defaultValue", "hasDefault"})
               /\ result.defaultValue = "{__defaultRandom: true}" /\ result.hasDefault
       /\ ColumnPrimaryKey(i, j)
            => /\ Derived(i, j, {"isPrimaryKey", "notNull"})
               /\ result.isPrimaryKey /\ result.notNull
       /\ \A ref \in ReferenceInputs :
            ColumnReferences(i, j, ref)
              => Derived(i, j, {"references"}) /\ result.references = ref]_vars

\* The second variable holds the primary-key definition made from the
\* definition the first still holds, which has a default and is neither a
\* primary key nor NOT NULL.
C23_Witness ==
  /\ Holds(1, "ColumnBuilder") /\ Holds(2, "ColumnBuilder")
  /\ last.slot = 2
  /\ LET receiver == Column_getMeta(heap, slots[1])
         result == Column_getMeta(heap, slots[2])
     IN /\ receiver.hasDefault /\ ~receiver.isPrimaryKey /\ ~receiver.notNull
        /\ result = [receiver EXCEPT !.isPrimaryKey = TRUE, !.notNull = TRUE]

----------------------------------------------------------------------------
(* Claims about the composition of conditions *)

\* The parameters and the next index of a compilation.
Threaded(result) == [params |-> result.params, nextIndex |-> result.nextIndex]

\* C24: for any three conditions a, b and c a program has built, in the
\* order it built them, and any start index k, and(a, b, c) and
\* and(and(a, b), c) compile to the same parameters in the same order and to
\* the same next index, and so do or(a, b, c) and or(or(a, b), c).
C24_CompositionAssociative ==
  Len(conds) >= 3 =>
    \A k \in 1..MaxStart :
      LET a == conds[Len(conds) - 2]
          b == conds[Len(conds) - 1]
          c == conds[Len(conds)]
      IN /\ Threaded(CondToSQL(and(<<a, b, c>>), k))
              = Threaded(CondToSQL(and(<<and(<<a, b>>), c>>), k))
         /\ Threaded(CondToSQL(or(<<a, b, c>>), k))
              = Threaded(CondToSQL(or(<<or(<<a, b>>), c>>), k))

\* The program has built three conditions that carry different numbers of
\* values, one of them itself a composition.
C24_Witness ==
  /\ Len(conds) = 3
  /\ \E x \in 1..3 : conds[x].node \in {"and", "or"} /\ LeafValues(conds[x]) > 0
  /\ \E x \in 1..3 : conds[x].node = "between"
  /\ \E x \in 1..3 : conds[x].node = "comparison"

----------------------------------------------------------------------------
(* Claims about the layout of compiled statements *)

\* The clause a fragment of SQL text opens, "" when it opens none.
ClauseOf(fragment) ==
  CASE fragment \in {"SELECT * FROM ", "SELECT "} -> "SELECT"
    [] fragment \in {"INNER", "LEFT", "RIGHT", "FULL"} -> "JOIN"
    [] fragment = "WHERE " -> "WHERE"
    [] fragment = "GROUP BY " -> "GROUP BY"
    [] fragment = "ORDER BY " -> "ORDER BY"
    [] fragment = "LIMIT " -> "LIMIT"
    [] fragment = "OFFSET " -> "OFFSET"
    [] OTHER -> ""

\* The clauses of a text, in the order the text has them; a JOIN with its
\* kind.
ClausesOf(sql) ==
  LET opening == SelectSeq(sql, LAMBDA f : ClauseOf(f) # "")
  IN [n \in 1..Len(opening) |->
        IF ClauseOf(opening[n]) = "JOIN" THEN opening[n] \o " JOIN"
        ELSE ClauseOf(opening[n])]

Optional(present, clause) == IF present THEN <<clause>> ELSE <<>>

\* The clauses the fields of a Select builder call for, in the fixed order.
ClausesFor(h, b) ==
  <<"SELECT">>
  \o [n \in 1..Len(Items(h, b._joins)) |->
        toUpperCase(Items(h, b._joins)[n].type) \o " JOIN"]
  \o Optional(b._where.some, "WHERE")
  \o Optional(Items(h, b._groupBy) # <<>>, "GROUP BY")
  \o Optional(Items(h, b._orderBy) # <<>>, "ORDER BY")
  \o Optional(b._limit.some, "LIMIT")
  \o Optional(b._offset.some, "OFFSET")

\* The Select builders with a FROM that the program holds.
Selects ==
  {k \in Slots : /\ slots[k] # NullRef
                 /\ heap[slots[k]].class = "SelectQueryBuilder"
                 /\ heap[slots[k]]._from.some}

\* C25: whatever calls made a Select builder, its text starts with
\* SELECT ... FROM <table> and goes on with one JOIN per join added, in the
\* order they were added, then WHERE, GROUP BY, ORDER BY, LIMIT and OFFSET in
\* that order, each there exactly when the builder's field holds something.
C25_SelectClauseOrder ==
  \A k \in Selects :
    LET b == heap[slots[k]]
        out == ToSQL(heap, slots[k])
    IN /\ out.error = ""
       /\ ClausesOf(out.sql) = ClausesFor(heap, b)
       /\ SubSeq(out.sql, 1, Len(SelectClause(b))) = SelectClause(b)
       /\ out.sql[Len(SelectClause(b))] = Quoted(b._from.val.tableName)

\* A Select with two joins of different kinds and every other clause.
C25_Witness ==
  \E k \in Selects :
    LET b == heap[slots[k]] IN
    /\ Len(Items(heap, b._joins)) = 2
    /\ Items(heap, b._joins)[1].type # Items(heap, b._joins)[2].type
    /\ b._where.some /\ b._limit.some /\ b._offset.some
    /\ Items(heap, b._groupBy) # <<>> /\ Items(heap, b._orderBy) # <<>>

\* The Insert builders with at least one row that the program holds.
Inserts ==
  {k \in Slots : /\ slots[k] # NullRef
                 /\ heap[slots[k]].class = "InsertQueryBuilder"
                 /\ Items(heap, heap[slots[k]]._values) # <<>>}

\* The name a key of a row is written with: the physical name of the column
\* it names (the key itself when the table has no such column).
WrittenName(table, key) ==
  IF HasKey(table.columns, key) THEN Col(table, key).columnName ELSE key

\* ($a, $a+1, ..., $a+m-1)
PlaceholderGroup(a, m) ==
  "(" \o CommaList([j \in 1..m |-> Placeholder(a + (j - 1))]) \o ")"

\* C26: for an Insert over rows r1..rn, n >= 1, with m the number of keys of
\* r1: the column list is the physical names of r1's keys in r1's order; the
\* text has n groups of m placeholders numbered from $1 on across the rows;
\* there are n*m parameters, row i's value for r1's key j at (i-1)*m + j,
\* undefined when the row has no such key, and a key r1 does not have adds
\* nothing; RETURNING * ends the text exactly when returning() was called.
C26_InsertLayout ==
  \A k \in Inserts :
    LET b == heap[slots[k]]
        rows == Items(heap, b._values)
        keys == Keys(rows[1])
        n == Len(rows)
        m == Len(keys)
        out == ToSQL(heap, slots[k])
    IN /\ out.error = ""
       /\ SqlText(out.sql)
            = "INSERT INTO " \o Quoted(b._table.tableName) \o " ("
                \o CommaList([j \in 1..m |-> Quoted(WrittenName(b._table, keys[j]))])
                \o ") VALUES "
                \o CommaList([i \in 1..n |-> PlaceholderGroup((i - 1) * m + 1, m)])
                \o (IF b._returning THEN " RETURNING *" ELSE "")
       /\ Len(out.params) = n * m
       /\ \A i \in 1..n : \A j \in 1..m :
            out.params[(i - 1) * m + j]
              = IF HasKey(rows[i], keys[j]) THEN Lookup(rows[i], keys[j])
                ELSE "undefined"

\* An Insert with RETURNING over two rows of two keys, the second without
\* one of the first row's keys and with a key the first does not have, into
\* a table that gives a key of the first row another physical name.
C26_Witness ==
  \E k \in Inserts :
    LET b == heap[slots[k]]
        rows == Items(heap, b._values)
    IN /\ b._returning
       /\ Len(rows) = 2 /\ Len(rows[1]) = 2
       /\ \E j \in 1..2 : ~HasKey(rows[2], rows[1][j].k)
       /\ \E j \in 1..Len(rows[2]) : ~HasKey(rows[1], rows[2][j].k)
       /\ \E j \in 1..2 : WrittenName(b._table, rows[1][j].k) # rows[1][j].k

----------------------------------------------------------------------------
(* Programs that do not await: an operation of an instance may be started   *)
(* and a field assigned while earlier operations are in flight.             *)

MaxRacing == 2

\* The program has fewer than MaxRacing operations in flight.
CanRace == Len(Pending(tasks)) < MaxRacing

RaceAttrs == { << Entry("id", "u1"), Entry("title", "Hello") >> }

\* A program that builds or finds one instance and then works on it.
RaceNext ==
  \/ BindRuntime
  \/ \E attrs \in RaceAttrs : ModelBuild(posts, attrs) /\ instances = <<>> /\ Awaited
  \/ \E id \in IdInputs : ModelFind(posts, id) /\ instances = <<>> /\ Awaited
  \/ \E n \in 1..MaxInstances, attrs \in UpdateAttrInputs :
       InstanceUpdateCall(n, attrs) /\ CanRace
  \/ \E n \in 1..MaxInstances : InstanceDestroyCall(n) /\ CanRace
  \/ \E n \in 1..MaxInstances : InstanceReloadCall(n) /\ CanRace
  \/ \E n \in 1..MaxInstances : InstanceSaveCall(n) /\ CanRace
  \/ \E n \in 1..MaxInstances : InstanceAssign(n, "title", "Edited")
  \/ \E t \in 1..MaxRacing, rows \in RowsInputs : GatewayResolve(t, rows)

SpecRace == Init /\ [][RaceNext]_vars

\* The statement an operation of an instance sends, from the instance as
\* the call found it and the arguments of the call.
StatementOf(task) ==
  LET pk == ValueAt(task.before._attributes, PkOf(task.table))
      set == IF task.op = "save" THEN NonKeyAttributes(task.before) ELSE task.args
  IN CASE task.op = "destroy" -> DeleteByPk(task.before)
       [] task.op = "reload" ->
            [sql |-> SelectByPkText(task.table), params |-> <<pk>>]
       [] task.op = "save" /\ ~task.before._persisted ->
            [sql |-> InsertReturningText(task.table, task.before._attributes),
             params |-> Values(task.before._attributes)]
       [] OTHER ->
            [sql |-> UpdateByPkText(task.table, set),
             params |-> Values(set) \o <<pk>>]

\* The operation gets as far as the gateway: one is bound, the table has a
\* primary key where the method looks for one, and an UPDATE has something
\* to assign.
ReachesGateway(task) ==
  /\ task.bound
  /\ (task.op = "save" /\ ~task.before._persisted)
       \/ /\ HasPrimaryKeyColumn(task.table)
          /\ task.op = "update" => task.args # <<>>
          /\ task.op = "save" => NonKeyAttributes(task.before) # <<>>

\* What identifies an operation and what it has sent.
Issued(task) ==
  [op |-> task.op, inst |-> task.inst, before |-> task.before, args |-> task.args,
   sent |-> [c \in 1..Len(task.calls) |->
               [sql |-> task.calls[c].sql, params |-> task.calls[c].params]]]

\* C27: an update(), destroy(), reload() or save() of an instance that gets
\* as far as the gateway has sent exactly one statement, the one its
\* arguments and the instance as the call found it determine, whatever was
\* assigned to the instance and whichever operations were started on it or
\* settled since; and no step changes what an operation in flight has sent.
C27_StatementFixedAtInvocation ==
  /\ [](\A t \in Range(tasks) :
          t.op \in InstanceOps
            => IF ReachesGateway(t)
               THEN Issued(t).sent = << StatementOf(t) >>
               ELSE t.calls = <<>>)
  /\ [][\A t \in 1..Len(tasks) :
          (tasks[t].op \in InstanceOps /\ tasks[t].status = "awaiting")
            => \E u \in 1..Len(tasks') : Issued(tasks'[u]) = Issued(tasks[t])]_vars

\* Two operations of one instance are in flight, the second started after an
\* assignment that the first one's statement does not show.
C27_Witness ==
  /\ Len(tasks) = 2
  /\ tasks[1].status = "awaiting" /\ tasks[2].status = "awaiting"
  /\ tasks[1].inst = tasks[2].inst /\ tasks[1].op = tasks[2].op
  /\ tasks[1].before # tasks[2].before
  /\ instances[tasks[2].inst] = tasks[2].before
  /\ Issued(tasks[1]).sent # Issued(tasks[2]).sent

----------------------------------------------------------------------------
(* Claims about calling a chain method again *)

\* What the builder or chain in the program's variable holds, before and
\* after the step.
Held == heap[slots[1]]
HeldAfter == heap'[slots'[1]]

\* One equality for each attribute that names a column of the table.
ColumnEqualities(t, attrs) ==
  Equalities(t, SelectSeq(attrs, LAMBDA e : HasKey(t.columns, e.k)))

\* The ordering an argument of orderBy stands for.
OrderingOf(order) ==
  [column |-> order.column,
   direction |-> IF order.type = "order" THEN order.direction ELSE "asc"]

\* The step was a call that returned.
Called == last'.slot = 1 /\ last'.error = ""

\* The builder compiles to the joins it has followed by the condition, from
\* the index the joins leave, and to nothing of any other condition.
CompilesOnly(h, b, condition) ==
  b._from.some
    => LET joins == JoinClauses(Items(h, b._joins), 1, 1)
           where == CondToSQL(condition, joins.paramIndex)
           out == SelectToSQL(h, CHOOSE ref \in DOMAIN h : h[ref] = b)
       IN /\ out.params = joins.params \o where.params
          /\ \E at \in 1..Len(out.sql) :
               /\ out.sql[at] = "WHERE "
               /\ SubSeq(out.sql, at + 1, at + Len(where.sql)) = where.sql
               /\ \A other \in 1..Len(out.sql) : out.sql[other] = "WHERE " => other = at

\* C28: on a Select builder where(c2) leaves c2 the only condition, whatever
\* condition the receiver had (the text and the parameters show c2 alone),
\* and orderBy and groupBy leave the list they were given, whatever list
\* the receiver had, while each join method adds its join after those the
\* receiver has; on a QueryChain where adds its equalities after the
\* conditions and orderBy its ordering after the orderings the receiver has.
C28_ReplaceOrAccumulate ==
  [][/\ (Called /\ Holds(1, "SelectQueryBuilder")) =>
       /\ \A c \in WhereInputs :
            SelectWhere(1, 1, c)
              => /\ HeldAfter._where = Some(c)
                 /\ CompilesOnly(heap', HeldAfter, c)
       /\ \A orders \in OrderInputs :
            SelectOrderBy(1, 1, orders)
              => Items(heap', HeldAfter._orderBy)
                   = [n \in 1..Len(orders) |-> OrderingOf(orders[n])]
       /\ \A columns \in GroupInputs :
            SelectGroupBy(1, 1, columns)
              => Items(heap', HeldAfter._groupBy) = columns
       /\ \A on \in OnInputs :
            /\ SelectInnerJoin(1, 1, users, on)
                 => Items(heap', HeldAfter._joins)
                      = Append(Items(heap, Held._joins), JoinClause("inner", users, on))
            /\ SelectLeftJoin(1, 1, users, on)
                 => Items(heap', HeldAfter._joins)
                      = Append(Items(heap, Held._joins), JoinClause("left", users, on))
            /\ SelectRightJoin(1, 1, users, on)
                 => Items(heap', HeldAfter._joins)
                      = Append(Items(heap, Held._joins), JoinClause("right", users, on))
     /\ (Called /\ Holds(1, "QueryChain")) =>
       /\ \A attrs \in AttrInputs :
            ChainWhere(1, 1, attrs)
              => Items(heap', HeldAfter._conditions)
                   = Items(heap, Held._conditions)
                       \o ColumnEqualities(Held._table, attrs)
       /\ \A column \in ChainOrderInputs, direction \in Directions :
            ChainOrderBy(1, 1, column, direction)
              => Items(heap', HeldAfter._orderByList)
                   = Append(Items(heap, Held._orderByList),
                            [column |-> column, direction |-> direction])]_vars

\* A Select with a FROM, two joins of different kinds, an ordering and a
\* grouping, just given a condition that carries values.
C28_Witness ==
  /\ last.slot = 1 /\ last.error = ""
  /\ Holds(1, "SelectQueryBuilder")
  /\ Held._from.some /\ Held._where.some
  /\ LeafValues(Held._where.val) > 1
  /\ Len(Items(heap, Held._joins)) = 2
  /\ Items(heap, Held._joins)[1] # Items(heap, Held._joins)[2]
  /\ Items(heap, Held._orderBy) # <<>> /\ Items(heap, Held._groupBy) # <<>>
  /\ Len(ToSQL(heap, slots[1]).params)
       = LeafValues(Held._where.val)
           + LeafValues(Items(heap, Held._joins)[1].on)
           + LeafValues(Items(heap, Held._joins)[2].on)

----------------------------------------------------------------------------
(* Claims about a save() that changes nothing.                              *)

\* The program's last operation was a save() of instances[n] that found it
\* unpersisted, sent its INSERT and was answered with no row.
SavedWithNoRow(n) ==
  /\ tasks # <<>>
  /\ LastTask(tasks).op = "save"
  /\ LastTask(tasks).inst = n
  /\ ~LastTask(tasks).before._persisted
  /\ Len(LastTask(tasks).calls) = 1
  /\ LastTask(tasks).calls[1].state = "fulfilled"
  /\ LastTask(tasks).calls[1].answer = <<>>

\* The one call of the task is the INSERT ... RETURNING * of the instance's
\* attributes.
InsertsAttributes(task, instance) ==
  /\ Len(task.calls) = 1
  /\ task.calls[1].method = "executeReturning"
  /\ task.calls[1].sql
       = InsertReturningText(instance._table, instance._attributes)
  /\ task.calls[1].params = Values(instance._attributes)

\* C29: a save() of an unpersisted instance whose INSERT is answered with no
\* row resolves without an error and leaves the instance as it was, not
\* persisted and with the same attributes; the save() of that instance that
\* follows sends an INSERT of its attributes again.
C29_SaveWithNoRowChangesNothing ==
  [][/\ \A t \in TaskIds :
          (Fulfils(t, <<>>, "save") /\ ~tasks[t].before._persisted)
            => /\ tasks'[t].status = "resolved"
               /\ tasks'[t].error = ""
               /\ instances' = instances
               /\ ~instances'[tasks[t].inst]._persisted
     /\ \A n \in 1..MaxInstances :
          (SavedWithNoRow(n) /\ InstanceSaveCall(n))
            => /\ ~instances[n]._persisted
               /\ InsertsAttributes(LastTask(tasks'), instances[n])]_vars

\* A save() of an unpersisted instance was answered with no row and has
\* resolved; the instance is as the save() found it.
C29_Witness ==
  \E n \in 1..Len(instances) :
    /\ SavedWithNoRow(n)
    /\ LastTask(tasks).status = "resolved"
    /\ instances[n] = LastTask(tasks).before
    /\ ~instances[n]._persisted
    /\ InsertsAttributes(LastTask(tasks), instances[n])

\* instances[n] is persisted and its table has no primary-key column.
PersistedWithoutKey(n) ==
  /\ n \in 1..Len(instances)
  /\ instances[n]._persisted
  /\ ~HasPrimaryKeyColumn(instances[n]._table)

\* The operation just started was rejected with error and made no call.
RejectedAtOnce(task, error) ==
  /\ task.status = "rejected"
  /\ task.error = error
  /\ task.calls = <<>>

\* C30: a save() of a persisted instance of a table without a primary-key
\* column makes no gateway call and resolves, the instance unchanged; an
\* update(), destroy() or reload() of the same instance is rejected with the
\* no-primary-key error of its kind.
C30_SaveWithoutKeyDoesNothing ==
  [][\A n \in 1..MaxInstances :
       PersistedWithoutKey(n)
         => /\ InstanceSaveCall(n)
                 => /\ LastTask(tasks').status = "resolved"
                    /\ LastTask(tasks').error = ""
                    /\ LastTask(tasks').calls = <<>>
                    /\ instances' = instances
            /\ \A attrs \in UpdateAttrInputs :
                 InstanceUpdateCall(n, attrs)
                   => RejectedAtOnce(LastTask(tasks'), NoPrimaryKey("update"))
            /\ InstanceDestroyCall(n)
                 => RejectedAtOnce(LastTask(tasks'), NoPrimaryKey("destroy"))
            /\ InstanceReloadCall(n)
                 => RejectedAtOnce(LastTask(tasks'), NoPrimaryKey("reload"))]_vars

\* A persisted instance of the table without a primary key was saved with a
\* gateway bound: the save() has resolved and called nothing.
C30_Witness ==
  \E n \in 1..Len(instances) :
    /\ PersistedWithoutKey(n)
    /\ tasks # <<>>
    /\ LastTask(tasks).op = "save"
    /\ LastTask(tasks).inst = n
    /\ LastTask(tasks).bound
    /\ LastTask(tasks).before = instances[n]
    /\ LastTask(tasks).status = "resolved"
    /\ LastTask(tasks).calls = <<>>

====
